---- MODULE Spec2Model ----
(***************************************************************************)
(* Model of the curve fitter (src/bezier/fit.rs, src/bezier/fit_old.rs)    *)
(* and of the rasterizer (src/drawing.rs, src/polygon.rs) of archetype.    *)
(*                                                                         *)
(* Curve fitter.  The input points are identified by their 0-based index   *)
(* in the slice handed to fit_curve; a run is the sub-slice                *)
(* &points[lo .. lo+len).  A curve is recorded by the input indices of its *)
(* control points 0 and 3 (always the first and last point of its run) and *)
(* by the maximum squared distance compute_max_error last returned for it. *)
(* The f32 squared distances themselves are inputs of the model: every     *)
(* measurement draws one value of 0..MaxDist per interior point of the     *)
(* run; the curve passes through its own end points (eval(0), eval(1)), so *)
(* their distance is 0.  A panic (index out of range, usize underflow,     *)
(* unwrap of None) is the outcome "fault".                                 *)
(***************************************************************************)
EXTENDS Integers, Sequences, FiniteSets, TLC

\* ---------------------------------------------------------------- bounds
MaxPoints == 8      \* longest input slice handed to fit_curve
MaxError  == 2      \* largest tolerance `error`
MaxDist   == 2      \* largest squared distance a measurement returns

MAX_ITERATIONS == 4

Variants == {"fit", "fit_old"}

VARIABLES
    variant,     \* which source file's fitter runs: "fit" (fit.rs) or "fit_old"
    npoints,     \* points.len() of the slice given to fit_curve
    error,       \* the tolerance given to fit_curve
    frames,      \* the fit_cubic calls made so far: id -> call record
    fitpc,       \* "idle", "running", "done" or "fault" (fit_curve panicked)
    result,      \* the Vec<BezierCurve> fit_curve returned, once fitpc = "done"
    width,       \* width of the target image (DrawTarget)
    height,      \* height of the target image
    image,       \* the pixels the image holds: position <<x, y>> -> colour
    before,      \* the image as it was when the draw call started
    call,        \* the draw call made: its shape and brush
    drawpc,      \* "idle", "done" or "fault" (the draw call panicked)
    bezier,      \* the BezierCurve eval and edges are called on
    evalparam,   \* the parameter last given to eval
    point,       \* the Vector2F eval returned
    segments,    \* the segments edges() yielded, collected
    curvepc,     \* "idle", "eval" (eval has returned) or "edges"
    scene,       \* the GraphicalState a pass rasterizes: polygons and lines
    flag,        \* the bool paired with the image in the RwLock
    surface,     \* the display surface: None or its pixels
    writer,      \* None or <<shape, task>>: the worker holding image.write()
    todo,        \* shape of the running collection -> pixel writes still to do
    done,        \* shape of the running collection -> pixel writes made
    passpc,      \* where update_image is: "idle", "wiped", "polygons", "lines"
    dpc,         \* "idle", or "recursed": draw is in its recursive call
    stale,       \* the image was written after the surface last received it
    lastdraw,    \* what the last draw did, and the value of stale it found
    passes,      \* update_image calls started
    pa,          \* the coefficients of self in Polynomial::mul
    pb,          \* the coefficients of other
    inner,       \* Diamond.inner: the rows not yet taken from it
    diamond,     \* Diamond.diamond: what is left of each active row
    coefs,       \* the coefficients Polynomial::new has collected
    polypc,      \* "idle", "running", "done" or "fault" (remove panicked)
    polyop,      \* the operation called: "none", "mul", "add", "sub", "diamondize"
    groups,      \* the items the collect of a diamondize has received
    gen,         \* the arguments of a generate_bezier call: points, u, lt, rt
    genout,      \* its C and X matrices, determinants and the curve returned
    genpc,       \* "idle" or "done"
    gs,          \* the GraphicalState (the current frame of the project)
    drag_line,   \* BufferedGuiMode.drag_line: None or <<pt1, pt2>>
    event        \* the event the GUI mode handled last

fitvars == <<variant, npoints, error, frames, fitpc, result>>

drawvars == <<width, height, image, before, call, drawpc>>

curvevars == <<bezier, evalparam, point, segments, curvepc>>

passvars == <<scene, flag, surface, writer, todo, done, passpc, dpc, stale, lastdraw, passes>>

\* the variables of the parts of the program modelled further down
polyvars == <<pa, pb, inner, diamond, coefs, polypc, polyop, groups>>

genvars == <<gen, genout, genpc>>

statevars == <<gs>>

guivars == <<drag_line, event>>

latervars == <<genvars, statevars, guivars>>

restvars == <<curvevars, passvars, polyvars, latervars>>

CurveIdle ==
    /\ bezier = <<>> /\ evalparam = <<0, 1>> /\ point = <<0, 0, 0>>
    /\ segments = <<>> /\ curvepc = "idle"

\* no surface, no holder of the write lock
None == <<>>

PassIdle ==
    /\ scene = <<>> /\ flag = TRUE /\ surface = None /\ writer = None
    /\ todo = <<>> /\ done = <<>> /\ passpc = "idle" /\ dpc = "idle"
    /\ stale = FALSE /\ lastdraw = [kind |-> "none", stale |-> FALSE]
    /\ passes = 0

PolyIdle ==
    /\ pa = <<>> /\ pb = <<>> /\ inner = <<>> /\ diamond = <<>>
    /\ coefs = <<>> /\ polypc = "idle"
    /\ polyop = "none" /\ groups = <<>>

GenIdle == gen = <<>> /\ genout = <<>> /\ genpc = "idle"

\* state/mod.rs:40-50: GraphicalState::new(), every collection empty; made
\* counts the items created so far (each item is given the next number, so
\* that an item can be told from the one that takes its place), fault is
\* "none" until a call panics, overflow_checks tells whether the build
\* checks integer arithmetic (debug) or wraps (release)
new(checks) ==
    [curves |-> <<>>, buffered_lines |-> <<>>, lines |-> <<>>,
     polygons |-> <<>>, history |-> <<>>, selected |-> <<>>,
     last_history_selected |-> None,
     made |-> 0, fault |-> "none", overflow_checks |-> checks]

StateIdle == gs = new(TRUE)

\* gui/mode/buffered.rs:20-25: BufferedGuiMode::new, no drag in progress
GuiIdle == drag_line = None /\ event = [kind |-> "none"]

\* the start of the parts of the program a specification does not run
RestIdle(own) ==
    /\ own \notin {"state", "gui"} => StateIdle
    /\ own # "gui" => GuiIdle
    /\ own # "curve" => CurveIdle
    /\ own # "pass" => PassIdle
    /\ own # "poly" => PolyIdle
    /\ own # "gen" => GenIdle

vars == <<variant, npoints, error, frames, fitpc, result,
          width, height, image, before, call, drawpc, restvars>>

\* ------------------------------------------------------- slices and reads
\* points[i] on a slice of length len panics unless 0 <= i < len
index_ok(i, len) == 0 <= i /\ i < len

\* &points[a..b] on a slice of length len panics unless a <= b <= len
\* (a usize that would be negative is an underflow: a panic as well)
slice_ok(a, b, len) == 0 <= a /\ a <= b /\ b <= len

\* fit.rs:256-263 / fit_old.rs:264-271: the end tangents read points[0],
\* points[1] and points[len-1], points[len-2]
compute_left_tangent_ok(len) == index_ok(1, len) /\ index_ok(0, len)

compute_right_tangent_ok(len) == index_ok(len - 1, len) /\ index_ok(len - 2, len)

\* compute_center_tangent reads points[center-1], points[center], points[center+1]
compute_center_tangent_ok(len, center) ==
    index_ok(center - 1, len) /\ index_ok(center, len) /\ index_ok(center + 1, len)

\* ------------------------------------------------------ 2-point shortcut
\* index of the point the shortcut uses as control point 3 of its curve
base_end_index(v) == IF v = "fit" THEN 3 ELSE 1

\* ---------------------------------------------------- error measurement
\* the squared distances of one measurement: interior points draw a value,
\* the run's first and last point lie on the curve
dist_of(di, len) == [i \in 0..(len - 1) |-> IF i \in DOMAIN di THEN di[i] ELSE 0]

Interior(len) == 1..(len - 2)

RECURSIVE fold_max_error(_, _, _, _, _)
fold_max_error(d, len, i, max_dist, midpoint) ==
    IF i >= len THEN <<max_dist, midpoint>>
    ELSE IF d[i] > max_dist
         THEN fold_max_error(d, len, i + 1, d[i], i)
         ELSE fold_max_error(d, len, i + 1, max_dist, midpoint)

RECURSIVE max_by_last(_, _, _, _)
max_by_last(d, len, i, best) ==
    IF i >= len THEN <<d[best], best>>
    ELSE IF d[best] > d[i]
         THEN max_by_last(d, len, i + 1, best)
         ELSE max_by_last(d, len, i + 1, i)

\* <<max_error, midpoint>> as compute_max_error returns them
compute_max_error(v, d, len) ==
    IF v = "fit"
    THEN fold_max_error(d, len, 0, 0, len \div 2)
    ELSE max_by_last(d, len, 1, 0)

\* --------------------------------------------------------- fit_cubic calls
\* generate_bezier reads points[0] and points[points.len() - 1]
generate_bezier_ok(len) == index_ok(0, len) /\ index_ok(len - 1, len)

\* exclusive end of the left sub-run &points[0..end] of a split at midpoint mp
left_end(v, mp) == IF v = "fit" THEN mp - 1 ELSE mp

\* exclusive end of the right sub-run &points[mp..end] of a split
right_end(len) == len - 1

BezierCurve(first, last, e, how) == [p0 |-> first, p3 |-> last, err |-> e, by |-> how]

\* first is the first measured maximum error of the call; rounds lists, for
\* every reparameterization round run, which parameters and which curve
\* reparameterize was given: 0 for the chord-length parameters and the first
\* curve, k for those produced by round k
Frame(l, n) ==
    [lo |-> l, len |-> n, pc |-> "call", iter |-> 0,
     max_error |-> 0, midpoint |-> 0, out |-> <<>>, first |-> 0, rounds |-> <<>>]

\* the frames with field fld of call f set to val
with_field(fs, f, fld, val) == [fs EXCEPT ![f] = [@ EXCEPT ![fld] = val]]

\* the arguments of the call reparameterize(points, &u, &curve) of a round:
\* u is the chord-length vector in every round (it is never reassigned),
\* curve is the one the round before generated
reparameterize_args(fr) == [u |-> 0, curve |-> fr.iter]

Returned(fr, curves) == [fr EXCEPT !.pc = "done", !.out = curves]

Panicked(fr) == [fr EXCEPT !.pc = "fault"]

\* the frames after call f has measured <<max_error, midpoint>> = m and found
\* it too large: the split at m[2] and the two recursive calls 2f and 2f+1
split(f, m) ==
    LET fr == frames[f]
        mp == m[2]
    IN  IF ~compute_center_tangent_ok(fr.len, mp)
           \/ ~slice_ok(0, left_end(variant, mp), fr.len)
           \/ ~slice_ok(mp, right_end(fr.len), fr.len)
        THEN [frames EXCEPT ![f] = Panicked([fr EXCEPT !.max_error = m[1],
                                                        !.midpoint = mp])]
        ELSE [frames EXCEPT ![f] = [fr EXCEPT !.pc = "wait", !.max_error = m[1],
                                               !.midpoint = mp]]
             @@ (2 * f :> Frame(fr.lo, left_end(variant, mp)))
             @@ (2 * f + 1 :> Frame(fr.lo + mp, right_end(fr.len) - mp))

\* fit_curve: the end tangents, then the root call of fit_cubic
fit_curve ==
    /\ fitpc = "idle"
    /\ IF compute_left_tangent_ok(npoints) /\ compute_right_tangent_ok(npoints)
       THEN /\ frames' = (1 :> Frame(0, npoints))
            /\ fitpc' = "running"
       ELSE /\ fitpc' = "fault"
            /\ UNCHANGED frames
    /\ UNCHANGED <<variant, npoints, error, result, drawvars, restvars>>

\* fit_cubic on a run it answers without fitting: fewer than two points
\* (fit_old.rs only) and the two-point shortcut
fit_cubic_short(f) ==
    /\ fitpc = "running"
    /\ f \in DOMAIN frames
    /\ frames[f].pc = "call"
    /\ LET fr == frames[f]
       IN  /\ (variant = "fit_old" /\ fr.len < 2) \/ fr.len = 2
           /\ frames' =
                IF variant = "fit_old" /\ fr.len < 2
                THEN [frames EXCEPT ![f] = Returned(fr, <<>>)]
                ELSE IF index_ok(0, fr.len) /\ index_ok(1, fr.len)
                        /\ index_ok(base_end_index(variant), fr.len)
                     THEN [frames EXCEPT ![f] = Returned(fr,
                              <<BezierCurve(fr.lo, fr.lo + base_end_index(variant),
                                            0, "shortcut")>>)]
                     ELSE [frames EXCEPT ![f] = Panicked(fr)]
    /\ UNCHANGED <<variant, npoints, error, fitpc, result, drawvars, restvars>>

\* what a call does with a measurement m = <<max_error, midpoint>> taken
\* after `rounds` reparameterization rounds
after_measure(f, m, rounds) ==
    LET fr == frames[f]
    IN  IF m[1] < error
        THEN [frames EXCEPT ![f] = Returned(fr,
                 <<BezierCurve(fr.lo, fr.lo + fr.len - 1, m[1], "fit")>>)]
        ELSE IF (rounds = 0 /\ m[1] < error * error)
                \/ (rounds > 0 /\ rounds < MAX_ITERATIONS)
             THEN [frames EXCEPT ![f] = [fr EXCEPT !.pc = "reparam", !.iter = rounds,
                                                   !.max_error = m[1], !.midpoint = m[2]]]
             ELSE split(f, m)

\* fit_cubic on a longer run, up to the first error measurement
fit_cubic(f) ==
    /\ fitpc = "running"
    /\ f \in DOMAIN frames
    /\ frames[f].pc = "call"
    /\ LET fr == frames[f]
       IN  /\ ~((variant = "fit_old" /\ fr.len < 2) \/ fr.len = 2)
           /\ IF ~generate_bezier_ok(fr.len)
              THEN frames' = [frames EXCEPT ![f] = Panicked(fr)]
              ELSE \E di \in [Interior(fr.len) -> 0..MaxDist] :
                     LET m == compute_max_error(variant, dist_of(di, fr.len), fr.len)
                     IN  frames' = with_field(after_measure(f, m, 0), f, "first", m[1])
    /\ UNCHANGED <<variant, npoints, error, fitpc, result, drawvars, restvars>>

\* one round of the reparameterization loop: new parameters, new curve, new
\* measurement
reparameterize(f) ==
    /\ fitpc = "running"
    /\ f \in DOMAIN frames
    /\ frames[f].pc = "reparam"
    /\ LET fr == frames[f]
       IN  \E di \in [Interior(fr.len) -> 0..MaxDist] :
             frames' = with_field(
                 after_measure(f, compute_max_error(variant, dist_of(di, fr.len), fr.len),
                               fr.iter + 1),
                 f, "rounds", Append(fr.rounds, reparameterize_args(fr)))
    /\ UNCHANGED <<variant, npoints, error, fitpc, result, drawvars, restvars>>

\* mutant of collect: the right call's curves first
collect_right_first(left, right) == right \o left

\* data_set.par_iter().map(..).flat_map(..).collect(): an indexed parallel
\* iterator collects in the order of data_set, whichever call finishes first
collect(left, right) == left \o right

Finished(f) == f \in DOMAIN frames /\ frames[f].pc \in {"done", "fault"}

\* the collect() at the end of a split: the left call's curves, then the
\* right call's; a panic of either call is the panic of the caller
join(f) ==
    /\ fitpc = "running"
    /\ f \in DOMAIN frames
    /\ frames[f].pc = "wait"
    /\ Finished(2 * f) /\ Finished(2 * f + 1)
    /\ frames' =
         IF frames[2 * f].pc = "fault" \/ frames[2 * f + 1].pc = "fault"
         THEN [frames EXCEPT ![f] = Panicked(frames[f])]
         ELSE [frames EXCEPT ![f] =
                  Returned(frames[f], collect(frames[2 * f].out, frames[2 * f + 1].out))]
    /\ UNCHANGED <<variant, npoints, error, fitpc, result, drawvars, restvars>>

\* fit_curve hands the root call's answer to its caller
fit_curve_return ==
    /\ fitpc = "running"
    /\ Finished(1)
    /\ IF frames[1].pc = "fault"
       THEN fitpc' = "fault" /\ UNCHANGED result
       ELSE fitpc' = "done" /\ result' = frames[1].out
    /\ UNCHANGED <<variant, npoints, error, frames, drawvars, restvars>>

InitFit ==
    /\ variant \in Variants
    /\ npoints \in 0..MaxPoints
    /\ error \in 0..MaxError
    /\ frames = <<>>
    /\ fitpc = "idle"
    /\ result = <<>>
    /\ width = 0 /\ height = 0
    /\ image = <<>> /\ before = <<>>
    /\ call = [op |-> "none"]
    /\ drawpc = "idle"
    /\ RestIdle("fit")

NextFit ==
    \/ fit_curve
    \/ \E f \in DOMAIN frames : fit_cubic_short(f)
    \/ \E f \in DOMAIN frames : fit_cubic(f)
    \/ \E f \in DOMAIN frames : reparameterize(f)
    \/ \E f \in DOMAIN frames : join(f)
    \/ fit_curve_return

SpecFit == InitFit /\ [][NextFit]_vars

\* ================================================================ rasterizer
\* Coordinates are rationals num/q with a common positive denominator q (q = 1
\* for the integer end points of lines); arithmetic is exact.
MaxWidth == 3       \* largest brush width

Colors == {"red", "blue"}

\* coordinates the end points of lines are drawn from (inside and outside the
\* images)
Coords == {-2, 0, 3, 10, 22}

ImageSizes == {<<20, 20>>, <<4, 3>>}

Abs(a) == IF a < 0 THEN -a ELSE a

\* `as i32` of the f32 a/q: truncation toward zero
as_i32(a, q) == IF a >= 0 THEN a \div q ELSE -((-a) \div q)

\* `as u32` of an integral f32: negative values saturate to 0
as_u32(a) == IF a < 0 THEN 0 ELSE a

SeqRange(sq) == {sq[i] : i \in 1..Len(sq)}

\* BresenhamLineIter::next until it returns None; e2 is 2 * q * error
RECURSIVE bresenham_next(_, _, _, _, _, _, _, _)
bresenham_next(x, y, e2, dx, dy, end_x, is_steep, y_step) ==
    IF x > end_x THEN <<>>
    ELSE LET ret == IF is_steep THEN <<y, x>> ELSE <<x, y>>
             e   == e2 - 2 * dy
         IN  <<ret>> \o
             (IF e < 0
              THEN bresenham_next(x + 1, y + y_step, e + 2 * dx, dx, dy, end_x, is_steep, y_step)
              ELSE bresenham_next(x + 1, y, e, dx, dy, end_x, is_steep, y_step))

\* BresenhamLineIter::new((fx, fy), (tx, ty)), collected
BresenhamLineIter(fx, fy, tx, ty, q) ==
    LET is_steep == Abs(ty - fy) > Abs(tx - fx)
        sx0 == IF is_steep THEN fy ELSE fx
        sy0 == IF is_steep THEN fx ELSE fy
        sx1 == IF is_steep THEN ty ELSE tx
        sy1 == IF is_steep THEN tx ELSE ty
        x0  == IF sx0 > sx1 THEN sx1 ELSE sx0
        y0  == IF sx0 > sx1 THEN sy1 ELSE sy0
        x1  == IF sx0 > sx1 THEN sx0 ELSE sx1
        y1  == IF sx0 > sx1 THEN sy0 ELSE sy1
    IN  bresenham_next(as_i32(x0, q), as_i32(y0, q), x1 - x0, x1 - x0, Abs(y1 - y0),
                       as_i32(x1, q), is_steep, IF y0 < y1 THEN 1 ELSE -1)

InBuffer(p) == p[1] >= 0 /\ p[1] < width /\ p[2] >= 0 /\ p[2] < height

\* rasterize_line_custom: the stepped pixels that pass the bounds filter
rasterize_line_custom(fx, fy, tx, ty, q) ==
    {p \in SeqRange(BresenhamLineIter(fx, fy, tx, ty, q)) : InBuffer(p)}

\* draw_pixel on every position of ps: the image afterwards (put_pixel
\* panics on a position outside the image)
draw_pixels(img, ps, color) ==
    [p \in DOMAIN img \cup {r \in ps : InBuffer(r)} |-> IF p \in ps THEN color ELSE img[p]]

draw_pixels_ok(ps) == \A p \in ps : InBuffer(p)

\* rasterize_thin_line: the positions it draws
rasterize_thin_line(fx, fy, tx, ty, q) == rasterize_line_custom(fx, fy, tx, ty, q)

\* CircleRasterizer::next until it returns None
RECURSIVE circle_next(_, _, _)
circle_next(x, y, p) ==
    IF x <= y THEN <<>>
    ELSE <<<<x, y>>>> \o
         (IF p < 0
          THEN circle_next(x + 1, y, p + 2 * (x + 1) + 1)
          ELSE circle_next(x + 1, y - 1, p + 2 * ((x + 1) - (y - 1)) + 1))

CircleRasterizer(radius) == circle_next(0, radius, 1 - radius)

\* rasterize_circle: the positions drawn by the four thin lines of every
\* octant step
rasterize_circle(x0, y0, radius) ==
    UNION { rasterize_thin_line(x0 - s[1], y0 + s[2], x0 + s[1], y0 + s[2], 1)
            \cup rasterize_thin_line(x0 - s[2], y0 + s[1], x0 + s[2], y0 + s[1], 1)
            \cup rasterize_thin_line(x0 - s[1], y0 - s[2], x0 + s[1], y0 - s[2], 1)
            \cup rasterize_thin_line(x0 - s[2], y0 - s[1], x0 + s[2], y0 - s[1], 1)
            : s \in SeqRange(CircleRasterizer(radius)) }

\* rasterize_thick_line: a circle of radius brush.width() at every stepped
\* pixel that passes the bounds filter
rasterize_thick_line(fx, fy, tx, ty, w) ==
    UNION { rasterize_circle(p[1], p[2], w) : p \in rasterize_line_custom(fx, fy, tx, ty, 1) }

\* impl Rasterizable for a Line
rasterize(ln, w) == rasterize_thick_line(ln.from[1], ln.from[2], ln.to[1], ln.to[2], w)

Lines == [from : Coords \X Coords, to : Coords \X Coords]

Brushes == [color : Colors, width : 0..MaxWidth]

\* a direct call of the public rasterize_thin_line
draw_thin_line ==
    /\ drawpc = "idle"
    /\ \E ln \in Lines, br \in Brushes :
         LET ps == rasterize_thin_line(ln.from[1], ln.from[2], ln.to[1], ln.to[2], 1)
         IN  /\ call' = [op |-> "thin_line", line |-> ln, brush |-> br]
             /\ image' = draw_pixels(image, ps, br.color)
             /\ drawpc' = IF draw_pixels_ok(ps) THEN "done" ELSE "fault"
    /\ UNCHANGED <<fitvars, restvars, width, height, before>>

\* Rasterizable::rasterize of a line segment
draw_line ==
    /\ drawpc = "idle"
    /\ \E ln \in Lines, br \in Brushes :
         LET ps == rasterize(ln, br.width)
         IN  /\ call' = [op |-> "line", line |-> ln, brush |-> br]
             /\ image' = draw_pixels(image, ps, br.color)
             /\ drawpc' = IF draw_pixels_ok(ps) THEN "done" ELSE "fault"
    /\ UNCHANGED <<fitvars, restvars, width, height, before>>

\* -------------------------------------------------------------------- curves
\* A Vector2F is <<x numerator, y numerator, denominator>>; denominator 0 is
\* NaN (both coordinates).  Sums, products and quotients are exact; sqrt is
\* computed in fixed point, in steps of 1/FixedPoint.
FixedPoint == 100

NaN == <<0, 0, 0>>

is_nan(v) == v[3] = 0

Vector2F(x, y) == <<x, y, 1>>

RECURSIVE gcd(_, _)
gcd(a, b) == IF b = 0 THEN Abs(a) ELSE gcd(b, a % b)

\* the same vector in lowest terms
reduced(v) ==
    IF is_nan(v) THEN NaN
    ELSE LET g == gcd(gcd(v[1], v[2]), v[3])
         IN  <<v[1] \div g, v[2] \div g, v[3] \div g>>

\* a == b on Vector2F: false when either side is NaN
vector_eq(a, b) ==
    /\ ~is_nan(a) /\ ~is_nan(b)
    /\ a[1] * b[3] = b[1] * a[3]
    /\ a[2] * b[3] = b[2] * a[3]

\* mutant of de_casteljau2: the two weights exchanged
de_casteljau2_swapped(t, w1, w2) ==
    IF is_nan(w1) \/ is_nan(w2) THEN NaN
    ELSE reduced(<<w1[1] * t[1] * w2[3] + w2[1] * (t[2] - t[1]) * w1[3],
                   w1[2] * t[1] * w2[3] + w2[2] * (t[2] - t[1]) * w1[3],
                   w1[3] * w2[3] * t[2]>>)

\* w1 * (1.0 - t) + w2 * t for the parameter t = t[1] / t[2]; a NaN operand
\* gives NaN whatever its weight (NaN * 0.0 is NaN)
de_casteljau2(t, w1, w2) ==
    IF is_nan(w1) \/ is_nan(w2) THEN NaN
    ELSE reduced(<<w1[1] * (t[2] - t[1]) * w2[3] + w2[1] * t[1] * w1[3],
                   w1[2] * (t[2] - t[1]) * w2[3] + w2[2] * t[1] * w1[3],
                   w1[3] * w2[3] * t[2]>>)

de_casteljau3(t, w1, w2, w3) ==
    de_casteljau2(t, de_casteljau2(t, w1, w2), de_casteljau2(t, w2, w3))

de_casteljau4(t, w1, w2, w3, w4) ==
    de_casteljau3(t, de_casteljau2(t, w1, w2), de_casteljau2(t, w2, w3),
                  de_casteljau2(t, w3, w4))

\* BezierCurve::eval; a curve is the sequence of its four control points
eval(curve, param) == de_casteljau4(param, curve[1], curve[2], curve[3], curve[4])

\* the largest k with k * k <= n
RECURSIVE sqrt_search(_, _, _)
sqrt_search(n, lo, hi) ==
    IF lo >= hi THEN lo
    ELSE LET mid == (lo + hi + 1) \div 2
         IN  IF mid * mid <= n THEN sqrt_search(n, mid, hi)
             ELSE sqrt_search(n, lo, mid - 1)

sqrt(n) == sqrt_search(n, 0, IF n < 46340 THEN n ELSE 46340)

\* distance(v1, v2) in steps of 1/FixedPoint
distance(v1, v2) ==
    LET dx == v1[1] * v2[3] - v2[1] * v1[3]
        dy == v1[2] * v2[3] - v2[2] * v1[3]
    IN  sqrt((dx * dx + dy * dy) * FixedPoint * FixedPoint) \div (v1[3] * v2[3])

\* curve_length_bound of edges(), in steps of 1/FixedPoint
curve_length_bound(curve) ==
    distance(curve[1], curve[2]) + distance(curve[2], curve[3])
        + distance(curve[3], curve[4])

\* mutant of num_segments: the quotient rounded up
num_segments_ceil(curve) ==
    IF \E i \in 1..4 : is_nan(curve[i]) THEN 0
    ELSE LET clb  == curve_length_bound(curve)
             root == sqrt(clb * clb + 800 * FixedPoint * FixedPoint)
         IN  (root + 8 * FixedPoint - 1) \div (8 * FixedPoint)

\* num_segments of edges(): ((clb2 + 800.0).sqrt() / 8.0) as i32; the cast
\* truncates, and NaN (a NaN control point) casts to 0
num_segments(curve) ==
    IF \E i \in 1..4 : is_nan(curve[i]) THEN 0
    ELSE LET clb  == curve_length_bound(curve)
             root == sqrt(clb * clb + 800 * FixedPoint * FixedPoint)
         IN  root \div (8 * FixedPoint)

\* LineSegment2F::new(a1, a2) of two finite vectors: integer end point
\* numerators over the common denominator q
LineSegment2F(a1, a2) ==
    LET fx == a1[1] * a2[3]
        fy == a1[2] * a2[3]
        tx == a2[1] * a1[3]
        ty == a2[2] * a1[3]
        d  == a1[3] * a2[3]
        g  == gcd(gcd(gcd(fx, fy), gcd(tx, ty)), d)
    IN  [from |-> <<fx \div g, fy \div g>>, to |-> <<tx \div g, ty \div g>>,
         q |-> d \div g]

\* mutant of Edges_next: prev is read but not replaced
Edges_next_stale(curve, i, n, prev) ==
    LET t2 == <<i + 1, n>>
    IN  [item |-> LineSegment2F(eval(curve, prev), eval(curve, t2)),
         prev |-> prev]

\* bezier/mod.rs:148-163, Edges::next once internal has yielded i: t1 is
\* (i + 1) * t_interval with t_interval = 1 / num_segments, t2 is t1, and the
\* swap leaves the former prev in t1 and t2's value in prev
Edges_next(curve, i, n, prev) ==
    LET t2 == <<i + 1, n>>
    IN  [item |-> LineSegment2F(eval(curve, prev), eval(curve, t2)),
         prev |-> t2]

RECURSIVE Edges_collect(_, _, _, _)
\* the items of an Edges whose internal range is i..n
Edges_collect(curve, i, n, prev) ==
    IF i >= n THEN <<>>
    ELSE LET step == Edges_next(curve, i, n, prev)
         IN  <<step.item>> \o Edges_collect(curve, i + 1, n, step.prev)

\* bezier/mod.rs:109-126, BezierCurve::edges, collected: internal is
\* 0..num_segments and prev starts at 0.0
edges(curve) == Edges_collect(curve, 0, num_segments(curve), <<0, 1>>)

\* the denominator of a segment's coordinates (1 for the integer end points
\* of lines and of straight polygon edges)
den(l) == IF "q" \in DOMAIN l THEN l.q ELSE 1

\* ------------------------------------------------------------------ polygons
\* a polygon is the sequence of its edges: PolygonEdge::Straight is
\* [from, to], PolygonEdge::Curved is [curve]
Ring(vs) == [i \in 1..Len(vs) |-> [from |-> vs[i], to |-> vs[(i % Len(vs)) + 1]]]

Corners == {<<0, 0>>, <<3, 0>>, <<3, 3>>, <<0, 3>>, <<10, 3>>, <<-2, 10>>}

\* a curved edge from (0,5) to (9,5) bulging to (3,7), (6,7), and an edge
\* whose handles are NaN
Arch == <<Vector2F(0, 5), Vector2F(3, 8), Vector2F(6, 8), Vector2F(9, 5)>>

NaNHandles == <<Vector2F(0, 5), NaN, NaN, Vector2F(0, 5)>>

\* convex polygons with the curved edge Arch between two straight edges, and
\* with the same three edges stored in another order
ConvexCurvedPolygons ==
    {<<[from |-> <<5, 0>>, to |-> <<0, 5>>], [curve |-> Arch],
       [from |-> <<9, 5>>, to |-> <<5, 0>>]>>,
     <<[curve |-> Arch], [from |-> <<9, 5>>, to |-> <<5, 0>>],
       [from |-> <<5, 0>>, to |-> <<0, 5>>]>>}

CurvedPolygons == ConvexCurvedPolygons \cup {<<[curve |-> NaNHandles]>>}

\* the polygons drawn: no edge at all, one edge, the triangles over Corners,
\* a square, and polygons with a curved edge
Polygons ==
    {<<>>, <<[from |-> <<0, 0>>, to |-> <<3, 3>>]>>,
     Ring(<<<<0, 0>>, <<3, 0>>, <<3, 3>>, <<0, 3>>>>)}
    \cup {Ring(t) : t \in {u \in Corners \X Corners \X Corners :
                                u[1] # u[2] /\ u[1] # u[3] /\ u[2] # u[3]}}
    \cup CurvedPolygons

PolygonTypes == {"Fill", "Outline"}

is_straight(s) == "from" \in DOMAIN s

\* the flattened segments of the curved edges cs[i..], in order
RECURSIVE flat_map_edges(_, _)
flat_map_edges(cs, i) ==
    IF i > Len(cs) THEN <<>>
    ELSE edges(cs[i].curve) \o flat_map_edges(cs, i + 1)

\* Polygon::as_straight_edges: the straight edges, chained with the flattened
\* segments of the curved edges
as_straight_edges(pg) ==
    SelectSeq(pg, is_straight)
        \o flat_map_edges(SelectSeq(pg, LAMBDA s : ~is_straight(s)), 1)

\* minimum and maximum of a non-empty set of integers
SetMin(S) == CHOOSE m \in S : \A o \in S : m <= o

SetMax(S) == CHOOSE m \in S : \A o \in S : m >= o

\* line.intersects_at(l) for the probe line from (min_x, y) to (max_x, y)
\* and the edge l: <<numerator, denominator>> of t, or <<>> for None
intersects_at(min_x, max_x, y, l) ==
    LET svx == min_x - max_x
        ovx == l.from[1] - l.to[1]
        ovy == l.from[2] - l.to[2]
        det == svx * ovy
        num == ovx * (y - l.to[2]) - ovy * (max_x - l.to[1])
    IN  IF det = 0 THEN <<>>
        ELSE IF det < 0 THEN <<-num, -det>> ELSE <<num, det>>

\* line.sample_at(t) for the edge l: the point <<x numerator, y numerator,
\* denominator>>
sample_at(l, t) ==
    <<l.to[1] * t[2] + (l.from[1] - l.to[1]) * t[1],
      l.to[2] * t[2] + (l.from[2] - l.to[2]) * t[1],
      t[2]>>

\* the intersections of one scanline, in the order of the edges; the probe
\* line is brought to the denominator of the edge's coordinates
RECURSIVE intersections(_, _, _, _, _)
intersections(es, i, min_x, max_x, y) ==
    IF i > Len(es) THEN <<>>
    ELSE LET q  == den(es[i])
             t  == intersects_at(min_x * q, max_x * q, y * q, es[i])
             pt == sample_at(es[i], t)
         IN  (IF t = <<>> THEN <<>> ELSE <<<<pt[1], pt[2], pt[3] * q>>>>)
             \o intersections(es, i + 1, min_x, max_x, y)

\* Iterator::step_by(2), skip(1) and zip on the collected intersections
step_by2(sq) == [k \in 1..((Len(sq) + 1) \div 2) |-> sq[2 * k - 1]]

skip1(sq) == IF sq = <<>> THEN <<>> ELSE Tail(sq)

\* mutant of zip: an unpaired trailing item is paired with itself
zip_padded(a, b) ==
    [k \in 1..(IF Len(a) > Len(b) THEN Len(a) ELSE Len(b)) |->
        IF k <= Len(a) /\ k <= Len(b) THEN <<a[k], b[k]>>
        ELSE IF k <= Len(a) THEN <<a[k], a[k]>> ELSE <<b[k], b[k]>>]

\* zip stops at the end of the shorter side
zip(a, b) == [k \in 1..(IF Len(a) < Len(b) THEN Len(a) ELSE Len(b)) |-> <<a[k], b[k]>>]

\* the spans of one scanline: intersections 0-1, 2-3, ... in the order the
\* intersections were collected in
spans(hits) == zip(step_by2(hits), step_by2(skip1(hits)))

\* the positions rasterize_thin_line draws for the span from pt1 to pt2
span_pixels(pt1, pt2) ==
    rasterize_thin_line(pt1[1] * pt2[3], pt1[2] * pt2[3],
                        pt2[1] * pt1[3], pt2[2] * pt1[3], pt1[3] * pt2[3])

\* the positions drawn for a sequence of spans
spans_pixels(sp) == UNION { span_pixels(sp[k][1], sp[k][2]) : k \in 1..Len(sp) }

\* the positions the worker of scanline y draws
scanline(es, min_x, max_x, y) ==
    spans_pixels(spans(intersections(es, 1, min_x, max_x, y)))

\* min()/max() of the end point coordinates are unwrapped: None for a polygon
\* without edges
fill_ok(pg) == Len(as_straight_edges(pg)) > 0

\* floor() and ceil() of the coordinate a/q
floor(a, q) == a \div q

ceil(a, q) == -((-a) \div q)

\* the bounds of the scanlines: floor of the least, ceil of the greatest end
\* point coordinate, each `as u32`
bounding_box(es) ==
    LET ends == UNION {{<<es[i].from, den(es[i])>>, <<es[i].to, den(es[i])>>}
                       : i \in 1..Len(es)}
    IN  [min_x |-> as_u32(SetMin({floor(e[1][1], e[2]) : e \in ends})),
         max_x |-> as_u32(SetMax({ceil(e[1][1], e[2]) : e \in ends})),
         min_y |-> as_u32(SetMin({floor(e[1][2], e[2]) : e \in ends})),
         max_y |-> as_u32(SetMax({ceil(e[1][2], e[2]) : e \in ends}))]

\* what the worker of every scanline y of Polygon::fill does: the
\* intersections it collects, the spans it pairs them into and the positions
\* it draws
scanlines(pg) ==
    LET es == as_straight_edges(pg)
        bb == bounding_box(es)
    IN  [y \in bb.min_y..bb.max_y |->
            LET hits == intersections(es, 1, bb.min_x, bb.max_x, y)
            IN  [hits |-> hits, spans |-> spans(hits),
                 pixels |-> scanline(es, bb.min_x, bb.max_x, y)]]

\* Polygon::fill: the positions it draws
fill(pg) == UNION { scanlines(pg)[y].pixels : y \in DOMAIN scanlines(pg) }

\* Rasterizable::rasterize of one flattened segment
rasterize_segment(l, w) ==
    UNION { rasterize_circle(p[1], p[2], w)
            : p \in rasterize_line_custom(l.from[1], l.from[2], l.to[1], l.to[2], den(l)) }

\* impl Rasterizable for Polygon: the positions it draws
rasterize_polygon(pg, mode, w) ==
    IF mode = "Outline"
    THEN UNION { rasterize_segment(as_straight_edges(pg)[i], w)
                 : i \in 1..Len(as_straight_edges(pg)) }
    ELSE fill(pg)

\* Rasterizable::rasterize of a polygon
draw_polygon ==
    /\ drawpc = "idle"
    /\ \E pg \in Polygons, mode \in PolygonTypes, br \in Brushes :
         IF mode = "Fill" /\ ~fill_ok(pg)
         THEN /\ call' = [op |-> "polygon", polygon |-> pg, mode |-> mode,
                          brush |-> br, scan |-> <<>>]
              /\ image' = image
              /\ drawpc' = "fault"
         ELSE LET ps == rasterize_polygon(pg, mode, br.width)
              IN  /\ call' = [op |-> "polygon", polygon |-> pg, mode |-> mode,
                              brush |-> br,
                              scan |-> IF mode = "Fill" THEN scanlines(pg) ELSE <<>>]
                  /\ image' = draw_pixels(image, ps, br.color)
                  /\ drawpc' = IF draw_pixels_ok(ps) THEN "done" ELSE "fault"
    /\ UNCHANGED <<fitvars, restvars, width, height, before>>

EmptyImage == <<>>

\* images a draw call can find in the target
StartImages == {EmptyImage, [p \in {<<1, 1>>, <<3, 0>>} |-> "blue"]}

InitDraw ==
    /\ variant = "fit" /\ npoints = 0 /\ error = 0
    /\ frames = <<>> /\ fitpc = "idle" /\ result = <<>>
    /\ \E sz \in ImageSizes : width = sz[1] /\ height = sz[2]
    /\ image \in StartImages
    /\ before = image
    /\ call = [op |-> "none"]
    /\ drawpc = "idle"
    /\ RestIdle("draw")

NextDraw ==
    \/ draw_thin_line
    \/ draw_line
    \/ draw_polygon

SpecDraw == InitDraw /\ [][NextDraw]_vars

\* ------------------------------------------------- curves: eval and edges
\* the control points curves are built from
ControlPoints ==
    {Vector2F(0, 0), Vector2F(3, 0), Vector2F(0, 4), Vector2F(8, 6),
     Vector2F(22, 0), NaN}

Curves == {Arch} \cup (ControlPoints \X ControlPoints \X ControlPoints \X ControlPoints)

\* the parameters eval is called with: 0, 1 and parameters in between
Params == {<<0, 1>>, <<1, 1>>, <<1, 2>>, <<1, 3>>}

\* a call of BezierCurve::eval
eval_curve ==
    /\ curvepc = "idle"
    /\ \E t \in Params :
         /\ evalparam' = t
         /\ point' = eval(bezier, t)
    /\ curvepc' = "eval"
    /\ UNCHANGED <<fitvars, drawvars, passvars, polyvars, latervars, bezier, segments>>

\* a call of BezierCurve::edges, collected
flatten_curve ==
    /\ curvepc = "idle"
    /\ segments' = edges(bezier)
    /\ curvepc' = "edges"
    /\ UNCHANGED <<fitvars, drawvars, passvars, polyvars, latervars, bezier, evalparam, point>>

FitIdle ==
    /\ variant = "fit" /\ npoints = 0 /\ error = 0
    /\ frames = <<>> /\ fitpc = "idle" /\ result = <<>>

DrawIdle ==
    /\ width = 0 /\ height = 0
    /\ image = <<>> /\ before = <<>>
    /\ call = [op |-> "none"]
    /\ drawpc = "idle"

InitCurve ==
    /\ FitIdle /\ DrawIdle /\ RestIdle("curve")
    /\ bezier \in Curves
    /\ evalparam = <<0, 1>> /\ point = NaN
    /\ segments = <<>> /\ curvepc = "idle"

NextCurve ==
    \/ eval_curve
    \/ flatten_curve

SpecCurve == InitCurve /\ [][NextCurve]_vars

\* ------------------------------------ update_image, rasterize pass and draw
MaxPasses == 2

\* the image of a pass is 4 by 3
PassSize == <<4, 3>>

FillA == Ring(<<<<3, 0>>, <<3, 3>>, <<-2, 10>>>>)

FillB == Ring(<<<<-2, 10>>, <<0, 3>>, <<3, 3>>>>)

FillC == Ring(<<<<-2, 10>>, <<3, 0>>, <<10, 3>>>>)

Diagonal == [from |-> <<0, 0>>, to |-> <<3, 3>>]

Brush(c, w) == [color |-> c, width |-> w]

\* the states rasterized: their polygons and lines, each with its brush (no
\* item is selected; the curve and buffered line collections are empty)
Scenes ==
    {[polygons |-> <<[polygon |-> FillA, mode |-> "Fill", brush |-> Brush("red", 1)],
                     [polygon |-> FillB, mode |-> "Fill", brush |-> Brush("blue", 1)]>>,
      lines |-> <<[line |-> Diagonal, brush |-> Brush("red", 1)]>>],
     [polygons |-> <<[polygon |-> FillB, mode |-> "Fill", brush |-> Brush("red", 0)],
                     [polygon |-> FillC, mode |-> "Fill", brush |-> Brush("blue", 0)]>>,
      lines |-> <<>>],
     [polygons |-> <<[polygon |-> FillA, mode |-> "Outline", brush |-> Brush("blue", 1)]>>,
      lines |-> <<[line |-> Diagonal, brush |-> Brush("blue", 0)]>>],
     [polygons |-> <<[polygon |-> FillC, mode |-> "Fill", brush |-> Brush("red", 1)]>>,
      lines |-> <<>>]}

\* the draw_pixel calls the rasterize call of one item makes, each under its
\* own image.write(): <<scanline, position>> for a filled polygon
write_tasks(item) ==
    IF "line" \in DOMAIN item
    THEN {<<0, p>> : p \in rasterize(item.line, item.brush.width)}
    ELSE IF item.mode = "Fill"
    THEN UNION { {<<y, p>> : p \in scanlines(item.polygon)[y].pixels}
                 : y \in DOMAIN scanlines(item.polygon) }
    ELSE {<<0, p>> : p \in rasterize_polygon(item.polygon, item.mode, item.brush.width)}

\* the collection the par_iter of rasterize is running over
collection == IF passpc = "lines" THEN scene.lines ELSE scene.polygons

AllPositions == (0..(width - 1)) \X (0..(height - 1))

\* the bytes recreate_surface clones: the samples as they are in the image
image_slice(img) ==
    [p \in AllPositions |-> IF p \in DOMAIN img THEN <<"rgba", img[p]>> ELSE <<"rgba", "zero">>]

\* the bytes draw writes: transparent pixels become the background colour,
\* the others have red and blue exchanged
draw_data(img) ==
    [p \in AllPositions |-> IF p \in DOMAIN img THEN <<"bgra", img[p]>> ELSE <<"bgra", "background">>]

\* update_image, first statement: image.write() and every sample set to 0
\* (the bool is left as it is)
update_image_wipe ==
    /\ passpc = "idle" /\ passes < MaxPasses
    /\ writer = None
    /\ image' = EmptyImage
    /\ stale' = (stale \/ image # EmptyImage)
    /\ passpc' = "wiped"
    /\ passes' = passes + 1
    /\ UNCHANGED <<fitvars, curvevars, polyvars, latervars, width, height, before, call, drawpc,
                   scene, flag, surface, writer, todo, done, dpc, lastdraw>>

\* rasterize, up to the first par_iter: upgradable_read, the bool set if it
\* is false, the lock dropped
rasterize_flag ==
    /\ passpc = "wiped"
    /\ writer = None
    /\ flag' = TRUE
    /\ passpc' = "polygons"
    /\ todo' = [s \in DOMAIN scene.polygons |-> write_tasks(scene.polygons[s])]
    /\ done' = [s \in DOMAIN scene.polygons |-> {}]
    /\ UNCHANGED <<fitvars, curvevars, polyvars, latervars, drawvars, scene, surface, writer, dpc,
                   stale, lastdraw, passes>>

\* c.write() of one draw_pixel call of a worker of shape s
acquire_write ==
    /\ passpc \in {"polygons", "lines"}
    /\ writer = None
    /\ \E s \in DOMAIN todo : \E t \in todo[s] : writer' = <<s, t>>
    /\ UNCHANGED <<fitvars, curvevars, polyvars, latervars, drawvars, scene, flag, surface, todo, done,
                   passpc, dpc, stale, lastdraw, passes>>

\* draw_pixel under the guard, and the guard dropped at the end of the
\* statement
put_pixel ==
    /\ writer # None
    /\ image' = draw_pixels(image, {writer[2][2]}, collection[writer[1]].brush.color)
    /\ todo' = [todo EXCEPT ![writer[1]] = @ \ {writer[2]}]
    /\ done' = [done EXCEPT ![writer[1]] = @ \cup {writer[2]}]
    /\ writer' = None
    /\ stale' = TRUE
    /\ UNCHANGED <<fitvars, curvevars, polyvars, latervars, width, height, before, call, drawpc,
                   scene, flag, surface, passpc, dpc, lastdraw, passes>>

\* the for_each over the polygons has returned: the par_iter over the lines
\* starts
rasterize_lines ==
    /\ passpc = "polygons"
    /\ writer = None
    /\ \A s \in DOMAIN todo : todo[s] = {}
    /\ passpc' = "lines"
    /\ todo' = [s \in DOMAIN scene.lines |-> write_tasks(scene.lines[s])]
    /\ done' = [s \in DOMAIN scene.lines |-> {}]
    /\ UNCHANGED <<fitvars, curvevars, polyvars, latervars, drawvars, scene, flag, surface, writer, dpc,
                   stale, lastdraw, passes>>

\* the for_each over the lines has returned: rasterize returns and
\* update_image ends with queue_draw
queue_draw ==
    /\ passpc = "lines"
    /\ writer = None
    /\ \A s \in DOMAIN todo : todo[s] = {}
    /\ passpc' = "idle"
    /\ UNCHANGED <<fitvars, curvevars, polyvars, latervars, drawvars, scene, flag, surface, writer, todo,
                   done, dpc, stale, lastdraw, passes>>

\* draw finds no surface: recreate_surface clones the image under
\* image.read(), then draw calls itself
recreate_surface ==
    /\ dpc = "idle"
    /\ surface = None
    /\ writer = None
    /\ surface' = image_slice(image)
    /\ stale' = FALSE
    /\ dpc' = "recursed"
    /\ UNCHANGED <<fitvars, curvevars, polyvars, latervars, drawvars, scene, flag, writer, todo, done,
                   passpc, lastdraw, passes>>

\* draw with a surface: upgradable_read; if the bool is set it is cleared and
\* the image copied to the surface, otherwise nothing is copied
draw ==
    /\ surface # None
    /\ writer = None
    /\ IF flag
       THEN /\ flag' = FALSE
            /\ surface' = draw_data(image)
            /\ stale' = FALSE
            /\ lastdraw' = [kind |-> "copy", stale |-> stale]
       ELSE /\ lastdraw' = [kind |-> "skip", stale |-> stale]
            /\ UNCHANGED <<flag, surface, stale>>
    /\ dpc' = "idle"
    /\ UNCHANGED <<fitvars, curvevars, polyvars, latervars, drawvars, scene, writer, todo, done, passpc,
                   passes>>

InitPass ==
    /\ FitIdle /\ RestIdle("pass")
    /\ width = PassSize[1] /\ height = PassSize[2]
    /\ image = EmptyImage /\ before = EmptyImage
    /\ call = [op |-> "none"]
    /\ drawpc = "idle"
    /\ scene \in Scenes
    /\ flag = TRUE /\ surface = None /\ writer = None
    /\ todo = <<>> /\ done = <<>> /\ passpc = "idle" /\ dpc = "idle"
    /\ stale = FALSE /\ lastdraw = [kind |-> "none", stale |-> FALSE]
    /\ passes = 0

NextPass ==
    \/ update_image_wipe
    \/ rasterize_flag
    \/ acquire_write
    \/ put_pixel
    \/ rasterize_lines
    \/ queue_draw
    \/ recreate_surface
    \/ draw

SpecPass == InitPass /\ [][NextPass]_vars

\* -------------------------------------------------- polynomial.rs: a * b
MaxCoefs == 3

\* the coefficients polynomials are built from
Coefs == {-1, 0, 2}

Polynomials == UNION { [1..n -> Coefs] : n \in 0..MaxCoefs }

\* mutant of product_rows: row i yields coef1 * coef2 for the coefficients
\* of other in reverse order
product_rows_reversed(a, b) ==
    [i \in 1..Len(a) |-> [j \in 1..Len(b) |-> a[i] * b[Len(b) + 1 - j]]]

\* the iterator mul diamondizes: row i yields coef1 * coef2 for the i-th
\* coef1 of self and every coef2 of other, in order
product_rows(a, b) == [i \in 1..Len(a) |-> [j \in 1..Len(b) |-> a[i] * b[j]]]

\* the items the active rows yield, in the order of the rows
RECURSIVE next_items(_, _)
next_items(d, i) ==
    IF i > Len(d) THEN <<>>
    ELSE (IF d[i] = <<>> THEN <<>> ELSE <<Head(d[i])>>) \o next_items(d, i + 1)

\* the indices (from 1) of the rows whose next() is None
RECURSIVE rejects(_, _)
rejects(d, i) ==
    IF i > Len(d) THEN <<>>
    ELSE (IF d[i] = <<>> THEN <<i>> ELSE <<>>) \o rejects(d, i + 1)

\* SmallVec::remove(i)
remove(d, i) == [k \in 1..(Len(d) - 1) |-> IF k < i THEN d[k] ELSE d[k + 1]]

\* rejects.into_iter().for_each(|i| diamond.remove(i)): every index is the
\* one the row had before any removal
RECURSIVE remove_rejects(_, _, _)
remove_rejects(d, rj, k) ==
    IF k > Len(rj) \/ rj[k] > Len(d) THEN d
    ELSE remove_rejects(remove(d, rj[k]), rj, k + 1)

\* no remove of the for_each panics: every index is in bounds when its turn
\* comes
RECURSIVE remove_ok(_, _, _)
remove_ok(d, rj, k) ==
    \/ k > Len(rj)
    \/ rj[k] <= Len(d) /\ remove_ok(remove(d, rj[k]), rj, k + 1)

\* sm.into_iter().sum()
RECURSIVE sum(_)
sum(sm) == IF sm = <<>> THEN 0 ELSE Head(sm) + sum(Tail(sm))

\* Polynomial::mul, up to the first next() of the Diamond
mul ==
    /\ polypc = "idle"
    /\ inner' = product_rows(pa, pb)
    /\ diamond' = <<>>
    /\ coefs' = <<>>
    /\ polypc' = "running"
    /\ polyop' = "mul"
    /\ UNCHANGED <<fitvars, drawvars, curvevars, passvars, latervars, pa, pb, groups>>

\* one Diamond::next called by the collect of Polynomial::new, and the sum
\* of the item it returns
diamond_next ==
    /\ polypc = "running" /\ polyop = "mul"
    /\ LET pushed == IF inner = <<>> THEN diamond ELSE Append(diamond, Head(inner))
           taken  == [i \in 1..Len(pushed) |->
                         IF pushed[i] = <<>> THEN <<>> ELSE Tail(pushed[i])]
           res    == next_items(pushed, 1)
           kept   == remove_rejects(taken, rejects(pushed, 1), 1)
       IN  /\ inner' = IF inner = <<>> THEN <<>> ELSE Tail(inner)
           /\ IF pushed = <<>>
              THEN diamond' = pushed /\ coefs' = coefs /\ polypc' = "done"
              ELSE IF ~remove_ok(taken, rejects(pushed, 1), 1)
              THEN diamond' = kept /\ coefs' = coefs /\ polypc' = "fault"
              ELSE /\ diamond' = kept
                   /\ coefs' = IF res = <<>> THEN coefs ELSE Append(coefs, sum(res))
                   /\ polypc' = IF res = <<>> THEN "done" ELSE "running"
    /\ UNCHANGED <<fitvars, drawvars, curvevars, passvars, latervars, pa, pb, polyop, groups>>

InitPoly ==
    /\ FitIdle /\ DrawIdle /\ RestIdle("poly")
    /\ pa \in Polynomials /\ pb \in Polynomials
    /\ inner = <<>> /\ diamond = <<>> /\ coefs = <<>>
    /\ polypc = "idle"
    /\ polyop = "none" /\ groups = <<>>

NextPoly ==
    \/ mul
    \/ diamond_next

SpecPoly == InitPoly /\ [][NextPoly]_vars

\* ---------------------------------------- polynomial.rs: diamondize, collected
MaxRows == 3

MaxRowLen == 3

\* element j of row i of the grids diamondized (indices from 0); with rows
\* of 3 elements these are 1, 2, 3 / 4, 5, 6 / 7, 8, 9 of diamond_test
element(i, j) == i * MaxRowLen + j + 1

\* the grids: every number of rows and every length of every row
Grids ==
    UNION { { [i \in 1..n |-> [j \in 1..lens[i] |-> element(i - 1, j - 1)]]
              : lens \in [1..n -> 0..MaxRowLen] } : n \in 0..MaxRows }

\* one Diamond::next called by a collect, and the item it returns
diamond_collect ==
    /\ polypc = "running" /\ polyop = "diamondize"
    /\ LET pushed == IF inner = <<>> THEN diamond ELSE Append(diamond, Head(inner))
           taken  == [i \in 1..Len(pushed) |->
                         IF pushed[i] = <<>> THEN <<>> ELSE Tail(pushed[i])]
           res    == next_items(pushed, 1)
           kept   == remove_rejects(taken, rejects(pushed, 1), 1)
       IN  /\ inner' = IF inner = <<>> THEN <<>> ELSE Tail(inner)
           /\ IF pushed = <<>>
              THEN diamond' = pushed /\ groups' = groups /\ polypc' = "done"
              ELSE IF ~remove_ok(taken, rejects(pushed, 1), 1)
              THEN diamond' = kept /\ groups' = groups /\ polypc' = "fault"
              ELSE /\ diamond' = kept
                   /\ groups' = IF res = <<>> THEN groups ELSE Append(groups, res)
                   /\ polypc' = IF res = <<>> THEN "done" ELSE "running"
    /\ UNCHANGED <<fitvars, drawvars, curvevars, passvars, latervars, pa, pb, coefs, polyop>>

\* rows.diamondize() on the rows of a grid; pa keeps the grid
InitDiamond ==
    /\ FitIdle /\ DrawIdle /\ RestIdle("poly")
    /\ pa \in Grids /\ pb = <<>>
    /\ inner = pa /\ diamond = <<>> /\ coefs = <<>>
    /\ polypc = "running"
    /\ polyop = "diamondize" /\ groups = <<>>

NextDiamond == diamond_collect

SpecDiamond == InitDiamond /\ [][NextDiamond]_vars

\* ------------------------------------------------ polynomial.rs: a + b, a - b
\* mutant of combine_poly: the operands zipped without padding
combine_poly_unpadded(a, b, f) ==
    LET min_len == IF Len(a) < Len(b) THEN Len(a) ELSE Len(b)
    IN  [i \in 1..min_len |-> IF f = "add" THEN a[i] + b[i] ELSE a[i] - b[i]]

\* combine_poly: both operands chained with zeros up to max_len, zipped and
\* mapped with f (a + b of Add, a - b of Sub)
combine_poly(a, b, f) ==
    LET max_len == IF Len(a) > Len(b) THEN Len(a) ELSE Len(b)
        x(i)    == IF i <= Len(a) THEN a[i] ELSE 0
        y(i)    == IF i <= Len(b) THEN b[i] ELSE 0
    IN  [i \in 1..max_len |-> IF f = "add" THEN x(i) + y(i) ELSE x(i) - y(i)]

\* Add::add
add ==
    /\ polypc = "idle"
    /\ coefs' = combine_poly(pa, pb, "add")
    /\ polypc' = "done"
    /\ polyop' = "add"
    /\ UNCHANGED <<fitvars, drawvars, curvevars, passvars, latervars, pa, pb, inner, diamond, groups>>

\* Sub::sub
sub ==
    /\ polypc = "idle"
    /\ coefs' = combine_poly(pa, pb, "sub")
    /\ polypc' = "done"
    /\ polyop' = "sub"
    /\ UNCHANGED <<fitvars, drawvars, curvevars, passvars, latervars, pa, pb, inner, diamond, groups>>

NextSum ==
    \/ add
    \/ sub

SpecSum == InitPoly /\ [][NextSum]_vars

\* ------------------------------------------------ fit.rs: generate_bezier
\* The parameters u are numerators over ParamDen; b0..b3 are computed times
\* ParamDen^3, the C and X matrices times ParamDen^6 and the determinants
\* times ParamDen^12 (the factors cancel in the alphas).  Sums and products
\* are exact.  A handle length is [num, den, eps]: the quotient
\* num / (den * EPSILON) when eps, num / den otherwise; den = 0 is a division
\* by zero (NaN for num = 0, an infinity otherwise).
ParamDen == 2

MaxRun == 3

GridPoints == {<<0, 0>>, <<4, 0>>, <<8, 0>>, <<4, 4>>, <<0, 3>>}

\* the unit tangents handed to generate_bezier
Tangents == {<<1, 0>>, <<-1, 0>>, <<0, 1>>, <<0, -1>>}

dot(a, b) == a[1] * b[1] + a[2] * b[2]

b0(n) == (ParamDen - n) * (ParamDen - n) * (ParamDen - n)

\* 3.0 * a * (u * u) with a = 1.0 - u
b1(n) == 3 * (ParamDen - n) * (n * n)

\* 3.0 * u * u * a
b2(n) == 3 * n * n * (ParamDen - n)

b3(n) == n * n * n

\* rhs[i], the two vectors lt * b1(u), rt * b2(u)
rhs(g, i) == <<<<g.lt[1] * b1(g.u[i]), g.lt[2] * b1(g.u[i])>>,
               <<g.rt[1] * b2(g.u[i]), g.rt[2] * b2(g.u[i])>>>>

RECURSIVE fold_sum(_, _, _)
fold_sum(term(_), i, n) == IF i > n THEN 0 ELSE term(i) + fold_sum(term, i + 1, n)

\* the C matrix [c00, c01, c10, c11]; fit_old.rs adds rhs[0].dot(rhs[0]) to
\* element (0, 1) and leaves (0, 0) at 0.0
c_mtrx(v, g) ==
    LET n      == Len(g.points)
        s00(i) == dot(rhs(g, i)[1], rhs(g, i)[1])
        s01(i) == dot(rhs(g, i)[1], rhs(g, i)[2])
        s11(i) == dot(rhs(g, i)[2], rhs(g, i)[2])
        c01    == IF v = "fit" THEN fold_sum(s01, 1, n)
                  ELSE fold_sum(s00, 1, n) + fold_sum(s01, 1, n)
    IN  [c00 |-> IF v = "fit" THEN fold_sum(s00, 1, n) ELSE 0,
         c01 |-> c01, c10 |-> c01, c11 |-> fold_sum(s11, 1, n)]

\* tmp of point i: points[i] - (points[0] * b0 + points[0] * b1
\* + points[li] * b2 + points[li] * b3), times ParamDen^3
tmp(g, i) ==
    LET n  == Len(g.points)
        c  == ParamDen * ParamDen * ParamDen
        w0 == b0(g.u[i]) + b1(g.u[i])
        w3 == b2(g.u[i]) + b3(g.u[i])
    IN  <<g.points[i][1] * c - (g.points[1][1] * w0 + g.points[n][1] * w3),
          g.points[i][2] * c - (g.points[1][2] * w0 + g.points[n][2] * w3)>>

x_mtrx(g) ==
    LET n     == Len(g.points)
        s0(i) == dot(rhs(g, i)[1], tmp(g, i))
        s1(i) == dot(rhs(g, i)[2], tmp(g, i))
    IN  <<fold_sum(s0, 1, n), fold_sum(s1, 1, n)>>

\* the three determinants
determinants(v, g) ==
    LET c == c_mtrx(v, g)
        x == x_mtrx(g)
    IN  [det_c0_c1 |-> c.c00 * c.c11 - c.c10 * c.c01,
         det_c0_x  |-> c.c00 * x[2] - (IF v = "fit" THEN c.c01 ELSE c.c10) * x[1],
         det_x_c1  |-> x[1] * c.c11 - x[2] * c.c01]

HandleLength(n, d, e) == [num |-> n, den |-> d, eps |-> e]

\* <<alpha_l, alpha_r>>.  fit.rs: a determinant of 0.0 is replaced by
\* c00 * c11 * EPSILON before the two divisions; fit_old.rs: a determinant
\* below 1.0e-4 in absolute value (in the model: 0) gives alpha 0.0
alphas(v, g) ==
    LET c == c_mtrx(v, g)
        d == determinants(v, g)
    IN  IF d.det_c0_c1 = 0
        THEN IF v = "fit"
             THEN <<HandleLength(d.det_x_c1, c.c00 * c.c11, TRUE),
                    HandleLength(d.det_c0_x, c.c00 * c.c11, TRUE)>>
             ELSE <<HandleLength(0, 1, FALSE), HandleLength(0, 1, FALSE)>>
        ELSE <<HandleLength(d.det_x_c1, d.det_c0_c1, FALSE),
               HandleLength(d.det_c0_x, d.det_c0_c1, FALSE)>>

\* alpha < 10e-6 (that is 1/100000) on f32: false for NaN and +inf, true
\* for -inf; with eps the quotient is num * 10^11 / den, which for an integer
\* num >= 1 is far above the threshold for every den of the model
below_threshold(a) ==
    IF a.den = 0 THEN a.num < 0
    ELSE LET n == IF a.den < 0 THEN -a.num ELSE a.num
             d == Abs(a.den)
         IN  IF n <= 0 THEN TRUE
             ELSE IF a.eps THEN FALSE
             ELSE n <= (d - 1) \div 100000

\* distance(points[0], points[li]) / 3.0, in steps of 1/FixedPoint
third_of_chord(g) ==
    HandleLength(distance(Vector2F(g.points[1][1], g.points[1][2]),
                          Vector2F(g.points[Len(g.points)][1], g.points[Len(g.points)][2])),
                 3 * FixedPoint, FALSE)

\* the curve [p0, p0 + lt * hl, p3 + rt * hr, p3], kept as its end points,
\* tangents and the two handle lengths
HandleCurve(g, l, r, b) ==
    [p0 |-> g.points[1], p3 |-> g.points[Len(g.points)], lt |-> g.lt, rt |-> g.rt,
     hl |-> l, hr |-> r, branch |-> b]

\* the curve of the Wu/Barsky branch
fallback_curve(g) == HandleCurve(g, third_of_chord(g), third_of_chord(g), "heuristic")

\* the curve generate_bezier returns
generate_bezier_curve(v, g) ==
    LET a == alphas(v, g)
    IN  IF below_threshold(a[1]) \/ below_threshold(a[2])
        THEN fallback_curve(g)
        ELSE HandleCurve(g, a[1], a[2], "alphas")

\* a call of generate_bezier
generate_bezier ==
    /\ genpc = "idle"
    /\ genout' = [c |-> c_mtrx(variant, gen), x |-> x_mtrx(gen),
                  det |-> determinants(variant, gen),
                  curve |-> generate_bezier_curve(variant, gen)]
    /\ genpc' = "done"
    /\ UNCHANGED <<fitvars, drawvars, curvevars, passvars, polyvars, statevars, guivars, gen>>

\* the runs generate_bezier is called on: 3 and more points, and in fit.rs
\* also the 1-point runs a split leaves; the first parameter is 0 and, from 2
\* points on, the last is 1
GenRuns(v) ==
    UNION { [points : [1..n -> GridPoints],
             u : {w \in [1..n -> 0..ParamDen] : w[1] = 0 /\ (n > 1 => w[n] = ParamDen)},
             lt : Tangents, rt : Tangents]
            : n \in (IF v = "fit" THEN {1} ELSE {}) \cup 3..MaxRun }

InitGen ==
    /\ variant \in Variants
    /\ npoints = 0 /\ error = 0
    /\ frames = <<>> /\ fitpc = "idle" /\ result = <<>>
    /\ DrawIdle /\ RestIdle("gen")
    /\ gen \in GenRuns(variant)
    /\ genout = <<>> /\ genpc = "idle"

NextGen == generate_bezier

SpecGen == InitGen /\ [][NextGen]_vars

\* ============================================= state/mod.rs: GraphicalState
\* state/data.rs:110 has 45; the model keeps the limit small so that
\* histories reach and pass it within the other bounds
HISTORY_LIMIT == 2

\* items created in one run of the model
MaxMade == 3

\* buffered lines held at once
MaxBuffered == 2

\* curves one fit_to call returns
MaxFit == 2

\* the largest usize: what 0 - 1 wraps to in a build without overflow
\* checks; it stands for 2^64 - 1 and is only ever compared with lengths
usize_MAX == 2147483647

\* state/data.rs:15-21: the derived order of the enum, Curve first
StateDataType == <<"Curve", "Line", "BufferedLine", "Polygon">>

\* state/data.rs:45-46: StateDataLoc(type, index); item is the number of the
\* item the location was recorded for (not part of the source's struct and
\* not compared by it)
StateDataLoc(ty, i, n) == [ty |-> ty, i |-> i, item |-> n]

\* state/data.rs:24-32: assoc_collection
assoc_collection(s, ty) ==
    CASE ty = "Curve" -> s.curves
      [] ty = "Line" -> s.lines
      [] ty = "BufferedLine" -> s.buffered_lines
      [] OTHER -> s.polygons

\* state/data.rs:34-42: assoc_collection_mut, with the collection replaced
with_collection(s, ty, c) ==
    CASE ty = "Curve" -> [s EXCEPT !.curves = c]
      [] ty = "Line" -> [s EXCEPT !.lines = c]
      [] ty = "BufferedLine" -> [s EXCEPT !.buffered_lines = c]
      [] OTHER -> [s EXCEPT !.polygons = c]

\* Vec::contains on locations: the derived PartialEq compares type and index
contains(sel, l) == \E k \in 1..Len(sel) : sel[k].ty = l.ty /\ sel[k].i = l.i

\* the derived Ord of StateDataLoc: by type, then by index
loc_less(a, b) ==
    LET rank(ty) == CHOOSE r \in 1..4 : StateDataType[r] = ty
    IN  rank(a.ty) < rank(b.ty) \/ (a.ty = b.ty /\ a.i < b.i)

\* itertools' sorted() on locations that differ pairwise
sorted(locs) ==
    LET n == Len(locs)
        place(k) == Cardinality({j \in 1..n : loc_less(locs[j], locs[k])}) + 1
    IN  [r \in 1..n |-> locs[CHOOSE k \in 1..n : place(k) = r]]

\* Iterator::rev
rev(q) == [k \in 1..Len(q) |-> q[Len(q) + 1 - k]]

\* the items numbered n + 1 .. n + k, as pushed on a collection
made_items(n, k) == [j \in 1..k |-> [id |-> n + j]]

\* state/mod.rs:119-121: unselect clears the selection and leaves
\* last_history_selected as it is
unselect_state(s) == [s EXCEPT !.selected = <<>>]

\* state/mod.rs:112-114: while history.len() > HISTORY_LIMIT remove(0)
trim(h) ==
    IF Len(h) > HISTORY_LIMIT
    THEN SubSeq(h, Len(h) - HISTORY_LIMIT + 1, Len(h))
    ELSE h

\* state/mod.rs:99-115: update_history_add(kind, item_num); the items are
\* pushed by the caller afterwards and are numbered from s.made + 1
update_history_add(s, kind, item_num) ==
    IF item_num = 0 THEN s
    ELSE LET new_index == Len(assoc_collection(s, kind))
             added == [k \in 1..item_num |->
                          StateDataLoc(kind, new_index + k - 1, s.made + k)]
         IN  [unselect_state(s) EXCEPT !.history = trim(s.history \o added)]

\* a call that returned: the handler's effect replaces the state
returns(s) ==
    /\ gs' = s
    /\ UNCHANGED <<fitvars, drawvars, curvevars, passvars, polyvars, genvars, guivars>>

\* no call is made on a state whose process a panic has ended
Alive == gs.fault = "none"

\* state/mod.rs:160-162
add_buffered_line ==
    /\ Alive
    /\ Len(gs.buffered_lines) < MaxBuffered
    /\ returns([gs EXCEPT !.buffered_lines = Append(@, <<<<0, 0>>, <<0, 0>>>>)])

\* state/mod.rs:172-182
convert_buffered_lines ==
    /\ Alive
    /\ LET len == Len(gs.buffered_lines)
           drained == [gs EXCEPT !.buffered_lines = <<>>]
           s == update_history_add(drained, "Line", len)
       IN  /\ gs.made + len <= MaxMade
           /\ returns([s EXCEPT !.lines = @ \o made_items(gs.made, len),
                                !.made = @ + len])

\* state/mod.rs:185-207: fit_to panics on the points of fewer than two
\* buffered lines (bezier/fit.rs:15-16 on no point, fit.rs:27-28 on two) and
\* on some longer inputs; otherwise it returns one curve or more
bezierify_buffered_lines ==
    /\ Alive
    /\ LET drained == [gs EXCEPT !.buffered_lines = <<>>]
       IN  \/ returns([drained EXCEPT !.fault = "fit_to"])
           \/ /\ Len(gs.buffered_lines) >= 2
              /\ \E len \in 1..MaxFit :
                    /\ gs.made + len <= MaxMade
                    /\ LET s == update_history_add(drained, "Curve", len)
                       IN  returns([s EXCEPT !.curves = @ \o made_items(gs.made, len),
                                             !.made = @ + len])

\* state/mod.rs:119-121
unselect ==
    /\ Alive
    /\ returns(unselect_state(gs))

RECURSIVE remove_items(_, _)
\* state/mod.rs:130-133: the removals of delete_selected, in the order
\* given; Vec::remove panics on an index that is not below the length
remove_items(s, items) ==
    IF items = <<>> THEN s
    ELSE LET l == Head(items)
             c == assoc_collection(s, l.ty)
         IN  IF l.i >= Len(c)
             THEN [s EXCEPT !.fault = "remove"]
             ELSE remove_items(with_collection(s, l.ty, remove(c, l.i + 1)),
                               Tail(items))

\* state/mod.rs:125-134
delete_selected ==
    /\ Alive
    /\ LET items == sorted(gs.selected)
           s == [gs EXCEPT !.history = <<>>, !.selected = <<>>]
       IN  returns(remove_items(s, rev(items)))

\* state/mod.rs:139-146: the index select_from_history reads and the value
\* it leaves in last_history_selected; 0 - 1 panics in a build that checks
\* arithmetic and wraps in one that does not
history_index(s) ==
    IF s.last_history_selected # None
    THEN LET i == s.last_history_selected[1]
         IN  [new_index |-> i, underflow |-> FALSE,
              lhs |-> <<IF i = 0 THEN 0 ELSE i - 1>>]
    ELSE LET len == Len(s.history)
             index == IF len = 0 THEN usize_MAX ELSE len - 1
         IN  [new_index |-> index, underflow |-> len <= 1,
              lhs |-> <<IF index = 0 THEN usize_MAX ELSE index - 1>>]

\* state/mod.rs:138-156
select_from_history ==
    /\ Alive
    /\ LET h == history_index(gs)
           taken == [gs EXCEPT !.last_history_selected = None]
           set == [gs EXCEPT !.last_history_selected = h.lhs]
       IN  IF h.underflow /\ gs.overflow_checks
           THEN returns([taken EXCEPT !.fault = "subtract with overflow"])
           ELSE IF h.new_index >= Len(gs.history)
           THEN returns([set EXCEPT !.fault = "history index out of bounds"])
           ELSE LET data_loc == gs.history[h.new_index + 1]
                IN  returns([set EXCEPT !.selected =
                                IF contains(@, data_loc) THEN @
                                ELSE Append(@, data_loc)])

\* state/mod.rs:440-449: iter_data_objects, as locations; an item is found
\* by its points, and a polygon without edges has none
data_objects(s) ==
    {StateDataLoc("Polygon", k - 1, s.polygons[k].id) :
        k \in {j \in 1..Len(s.polygons) : s.polygons[j].edges > 0}}
    \cup {StateDataLoc("Curve", k - 1, s.curves[k].id) : k \in 1..Len(s.curves)}
    \cup {StateDataLoc("Line", k - 1, s.lines[k].id) : k \in 1..Len(s.lines)}

\* state/mod.rs:396-437: the click location decides which of the items not
\* yet selected is the closest
select_closest_element ==
    /\ Alive
    /\ LET open == {l \in data_objects(gs) : ~contains(gs.selected, l)}
       IN  IF open = {} THEN returns(gs)
           ELSE \E l \in open : returns([gs EXCEPT !.selected = Append(@, l)])

RECURSIVE take_items(_, _, _)
\* state/mod.rs:327-341: the map over the reversed selection, collected into
\* an Option; acc.sm counts the containers collected, acc.lines is "Some",
\* "None" (a location that is neither line nor curve ended the collect) or
\* "panic" (item's expect, or Vec::remove in take_item)
take_items(acc, locs, duplicate) ==
    IF locs = <<>> THEN acc
    ELSE LET l == Head(locs)
             c == assoc_collection(acc.s, l.ty)
         IN  IF l.ty \notin {"Line", "Curve"}
             THEN [acc EXCEPT !.lines = "None"]
             ELSE IF l.i >= Len(c)
             THEN [acc EXCEPT !.lines = "panic"]
             ELSE take_items(
                     [acc EXCEPT !.sm = @ + 1,
                                 !.s = IF duplicate THEN @
                                       ELSE with_collection(@, l.ty, remove(c, l.i + 1))],
                     Tail(locs), duplicate)

\* state/mod.rs:210-393: new_lines is the number of endpoint pairs further
\* apart than TOLERANCE, none unless create_new_line
polygonify_selected_items ==
    /\ Alive
    /\ \E create_new_line \in BOOLEAN, duplicate \in BOOLEAN :
          LET locs == gs.selected
              drained == [gs EXCEPT !.selected = <<>>]
              got == take_items([s |-> drained, sm |-> 0, lines |-> "Some"],
                                rev(locs), duplicate)
          IN  CASE got.lines = "panic" ->
                      returns([got.s EXCEPT !.fault = "take_item"])
                [] got.lines = "None" ->
                      returns(got.s)
                [] OTHER ->
                      \E new_lines \in 0..(IF create_new_line THEN got.sm ELSE 0) :
                         /\ gs.made + 1 + new_lines <= MaxMade
                         /\ LET poly == [id |-> gs.made + 1, edges |-> got.sm]
                                pushed == [got.s EXCEPT
                                    !.history = Append(@, StateDataLoc("Polygon", Len(got.s.polygons), poly.id)),
                                    !.polygons = Append(@, poly),
                                    !.made = @ + 1]
                                s == update_history_add(pushed, "Line", new_lines)
                            IN  returns([s EXCEPT
                                    !.lines = @ \o made_items(pushed.made, new_lines),
                                    !.made = @ + new_lines])

InitState ==
    /\ variant = "fit" /\ npoints = 0 /\ error = 0
    /\ frames = <<>> /\ fitpc = "idle" /\ result = <<>>
    /\ DrawIdle /\ RestIdle("state")
    /\ gs \in {new(checks) : checks \in BOOLEAN}

NextState ==
    \/ add_buffered_line
    \/ convert_buffered_lines
    \/ bezierify_buffered_lines
    \/ unselect
    \/ delete_selected
    \/ select_from_history
    \/ select_closest_element
    \/ polygonify_selected_items

SpecState == InitState /\ [][NextState]_vars

\* =========================================== gui/mode/buffered.rs: the mode
\* the mouse buttons and the pointer positions of the events delivered
Buttons == {1, 2, 3}

GuiPoints == {<<0, 0>>, <<4, 0>>}

\* an event handler of the mode that returned, having left the state as s
handled(kind, btn, pt, s) ==
    /\ event' = [kind |-> kind, btn |-> btn, pt |-> pt]
    /\ gs' = s
    /\ UNCHANGED <<fitvars, drawvars, curvevars, passvars, polyvars, genvars>>

\* gui/mode/buffered.rs:84-91
mouse_press ==
    \E btn \in Buttons, pt \in GuiPoints :
       /\ drag_line' = IF btn = 1 /\ drag_line = None THEN <<pt, pt>> ELSE drag_line
       /\ handled("press", btn, pt, gs)

\* gui/mode/buffered.rs:109-113
mouse_move ==
    \E pt \in GuiPoints :
       /\ drag_line' = IF drag_line # None THEN <<drag_line[1], pt>> ELSE drag_line
       /\ handled("move", 0, pt, gs)

\* gui/mode/buffered.rs:94-106: the tuple matched is built first, and
\* building it takes the drag line out of the mode whatever the button is
mouse_release ==
    \E btn \in Buttons, pt \in GuiPoints :
       LET taken == drag_line
       IN  /\ drag_line' = None
           /\ IF btn = 1 /\ taken # None
              THEN /\ Len(gs.buffered_lines) < MaxBuffered
                   /\ handled("release", btn, pt,
                              [gs EXCEPT !.buffered_lines = Append(@, taken)])
              ELSE handled("release", btn, pt, gs)

\* gui/mode/buffered.rs:45-51: key 'd' drops the buffered lines
key_press ==
    /\ drag_line' = drag_line
    /\ handled("key", 0, <<0, 0>>, [gs EXCEPT !.buffered_lines = <<>>])

InitGui ==
    /\ variant = "fit" /\ npoints = 0 /\ error = 0
    /\ frames = <<>> /\ fitpc = "idle" /\ result = <<>>
    /\ DrawIdle /\ RestIdle("gui")
    /\ gs = new(TRUE)
    /\ drag_line = None /\ event = [kind |-> "none"]

NextGui ==
    \/ mouse_press
    \/ mouse_move
    \/ mouse_release
    \/ key_press

SpecGui == InitGui /\ [][NextGui]_vars

\* ====================================================== claims, curve fitter
FitOver == fitpc \in {"done", "fault"}

\* C1 (as claimed): fit_curve on exactly two points returns, without fault,
\* exactly one curve whose control point 0 is P0 and control point 3 is P1.
C1_TwoPointFitExact ==
    (npoints = 2 /\ FitOver) =>
        /\ fitpc = "done"
        /\ Len(result) = 1
        /\ result[1].p0 = 0
        /\ result[1].p3 = 1

\* C2 (as claimed): fit_curve on 0 or 1 points returns the empty sequence of
\* curves and does not fault.
C2_TooFewPointsEmpty ==
    (npoints < 2 /\ FitOver) => (fitpc = "done" /\ result = <<>>)

\* C3 (as claimed): in the result of one fit_curve call, control point 3 of
\* curve i is the same input point as control point 0 of curve i+1.
C3_Continuity ==
    fitpc = "done" =>
        \A i \in 1..(Len(result) - 1) : result[i].p3 = result[i + 1].p0

\* C4 (as claimed): for an input of at least 2 points every recursive call
\* gets a run strictly shorter than its caller's, and no call is made on a
\* run of 0 or 1 points and no call faults.
C4_SplitTerminates ==
    npoints >= 2 =>
        /\ fitpc # "fault"
        /\ \A f \in DOMAIN frames :
              /\ f # 1 => frames[f].len < frames[f \div 2].len
              /\ frames[f].len >= 2
              /\ frames[f].pc # "fault"

\* C5 (as claimed): every input point of a completed fit_curve call lies in
\* the run of some output curve, and unless that curve comes from the 2-point
\* shortcut its last measured maximum squared distance is at most `error`.
C5_FitTolerance ==
    (fitpc = "done" /\ npoints >= 2) =>
        \A i \in 0..(npoints - 1) :
            \E k \in 1..Len(result) :
                /\ result[k].p0 <= i /\ i <= result[k].p3
                /\ result[k].by = "fit" => result[k].err <= error

\* the curves cs lie in the run [lo, lo+len) and their end points, read in
\* sequence order, are in input order
InInputOrder(cs, lo, len) ==
    /\ \A k \in 1..Len(cs) :
          lo <= cs[k].p0 /\ cs[k].p0 <= cs[k].p3 /\ cs[k].p3 < lo + len
    /\ \A k \in 1..(Len(cs) - 1) : cs[k].p3 <= cs[k + 1].p0

\* C6: every fit_cubic call that has returned, returned the curves of its
\* left sub-run before those of its right sub-run: the end points of its
\* curves, read in output order, are in the order of the input points,
\* whatever the order in which the two sub-fits ran.
C6_OrderPreserved ==
    /\ \A f \in DOMAIN frames :
          frames[f].pc = "done" => InInputOrder(frames[f].out, frames[f].lo, frames[f].len)
    /\ fitpc = "done" => InInputOrder(result, 0, npoints)

\* C6 witness: a completed call of the compiled fitter that has split
C6_Witness == variant = "fit" /\ fitpc = "done" /\ Len(result) >= 2

\* C7 (as claimed): three points whose measured maximum error is zero, fitted
\* with error 0, give exactly one curve from the first to the last point,
\* without split and without fault.
C7_CollinearZeroTolerance ==
    (npoints = 3 /\ error = 0 /\ FitOver /\ frames[1].max_error = 0) =>
        /\ fitpc = "done"
        /\ Len(result) = 1
        /\ result[1].p0 = 0
        /\ result[1].p3 = 2
        /\ DOMAIN frames = {1}

\* ========================================================= claims, rasterizer
DrawOver == drawpc \in {"done", "fault"}

\* C8 (as claimed): rasterizing the segment (0,0)-(10,0) with a width-1 brush
\* onto an empty 20x20 buffer sets exactly the pixels (0,0)..(10,0) to the
\* brush colour and changes no other pixel.
C8_HorizontalLineElevenPixels ==
    (/\ DrawOver
     /\ call.op = "line"
     /\ call.line = [from |-> <<0, 0>>, to |-> <<10, 0>>]
     /\ call.brush.width = 1
     /\ width = 20 /\ height = 20
     /\ before = EmptyImage)
    => /\ drawpc = "done"
       /\ DOMAIN image = {<<x, 0>> : x \in 0..10}
       /\ \A p \in DOMAIN image : image[p] = call.brush.color

\* the pixels of the image within distance r of centre c
FilledCircle(c, r) ==
    {p \in (0..(width - 1)) \X (0..(height - 1)) :
        (p[1] - c[1]) * (p[1] - c[1]) + (p[2] - c[2]) * (p[2] - c[2]) <= r * r}

\* C9 (as claimed): rasterizing a segment with a brush of width w > 1 colours,
\* for every in-bounds pixel of the segment's Bresenham walk, every in-bounds
\* pixel of the filled circle of radius w around it, the stepped pixel included.
C9_ThickLineStampsCircles ==
    (DrawOver /\ call.op = "line" /\ call.brush.width > 1) =>
        /\ drawpc = "done"
        /\ \A s \in rasterize_line_custom(call.line.from[1], call.line.from[2],
                                           call.line.to[1], call.line.to[2], 1) :
              \A p \in FilledCircle(s, call.brush.width) :
                  p \in DOMAIN image /\ image[p] = call.brush.color

\* C10 (as claimed): no draw call, for any geometry and brush, writes a pixel
\* outside the buffer; positions outside are skipped and the call completes
\* without fault.
C10_DrawStaysInBuffer ==
    /\ \A p \in DOMAIN image : InBuffer(p)
    /\ drawpc # "fault"

\* a completed fill of a polygon
FillDone == call.op = "polygon" /\ call.mode = "Fill" /\ drawpc = "done"

\* the sequence sq rearranged by the permutation f of its indices
Permuted(sq, f) == [k \in 1..Len(sq) |-> sq[f[k]]]

\* the points hs are in non-decreasing order of x
x_ordered(hs) ==
    \A i \in 1..(Len(hs) - 1) : hs[i][1] * hs[i + 1][3] <= hs[i + 1][1] * hs[i][3]

\* the positions of the spans between points 2k and 2k+1 (0-based) of hs
even_odd_pixels(hs) ==
    UNION { span_pixels(hs[2 * k - 1], hs[2 * k]) : k \in 1..(Len(hs) \div 2) }

\* C11 (as claimed): for every scanline of a fill the positions drawn are
\* those of the spans between intersections 2k and 2k+1 of the scanline's
\* intersections ordered by x, and the fill draws the same positions for
\* every order in which the polygon's edges can be stored.
C11_SpansBetweenXOrderedPairs ==
    FillDone =>
        /\ \A y \in DOMAIN call.scan :
              \E f \in Permutations(1..Len(call.scan[y].hits)) :
                  /\ x_ordered(Permuted(call.scan[y].hits, f))
                  /\ call.scan[y].pixels = even_odd_pixels(Permuted(call.scan[y].hits, f))
        /\ \A g \in Permutations(1..Len(call.polygon)) :
              fill(Permuted(call.polygon, g)) = fill(call.polygon)

\* the polygon with every curved edge replaced, in place, by its flattened
\* straight segments
RECURSIVE flattened_in_place(_, _)
flattened_in_place(pg, i) ==
    IF i > Len(pg) THEN <<>>
    ELSE (IF is_straight(pg[i]) THEN <<pg[i]>> ELSE edges(pg[i].curve))
         \o flattened_in_place(pg, i + 1)

\* C12 (as claimed): the fill of a convex polygon with curved edges onto an
\* empty buffer sets exactly the positions that the fill of the polygon with
\* each curved edge replaced in place by its flattened segments sets.
C12_FlattenedFillIdentical ==
    (FillDone /\ call.polygon \in ConvexCurvedPolygons /\ before = EmptyImage) =>
        DOMAIN image = fill(flattened_in_place(call.polygon, 1))

\* C13 (as claimed): in a fill, the span end points of scanline y lie on
\* row y, every position the worker of scanline y draws lies in row y, and
\* the workers of two different scanlines draw no common position.
C13_ScanlineWritesOwnRow ==
    FillDone =>
        /\ \A y \in DOMAIN call.scan :
              /\ \A k \in 1..Len(call.scan[y].hits) :
                    call.scan[y].hits[k][2] = y * call.scan[y].hits[k][3]
              /\ \A p \in call.scan[y].pixels : p[2] = y
        /\ \A y1, y2 \in DOMAIN call.scan :
              y1 # y2 => call.scan[y1].pixels \cap call.scan[y2].pixels = {}

\* C19: a fill with a scanline of an odd number n of intersections completes
\* without fault; for such a scanline it draws floor(n/2) spans, the spans
\* between intersections 2k and 2k+1, and nothing for the last intersection;
\* the positions of every scanline are drawn.
C19_OddIntersectionsDropLast ==
    (/\ call.op = "polygon" /\ call.mode = "Fill" /\ DrawOver
     /\ \E y \in DOMAIN call.scan : Len(call.scan[y].hits) % 2 = 1)
    => /\ drawpc = "done"
       /\ \A y \in DOMAIN call.scan :
             LET hits == call.scan[y].hits
                 n    == Len(hits)
             IN  n % 2 = 1 =>
                   /\ Len(call.scan[y].spans) = n \div 2
                   /\ \A k \in 1..(n \div 2) :
                         call.scan[y].spans[k] = <<hits[2 * k - 1], hits[2 * k]>>
                   /\ call.scan[y].pixels = even_odd_pixels(hits)
       /\ \A y \in DOMAIN call.scan :
             \A p \in call.scan[y].pixels :
                 p \in DOMAIN image /\ image[p] = call.brush.color

\* C19 witness: a completed fill with a scanline of three intersections that
\* drew a span, and another scanline that drew as well
C19_Witness ==
    /\ FillDone
    /\ \E y1, y2 \in DOMAIN call.scan :
          /\ y1 # y2
          /\ Len(call.scan[y1].hits) = 3
          /\ call.scan[y1].pixels # {}
          /\ call.scan[y2].pixels # {}
          /\ call.scan[y1].pixels \cup call.scan[y2].pixels \subseteq DOMAIN image

\* ========================================================== claims, curves
\* C17 (as claimed): for every curve, eval(0) equals control point 0 and
\* eval(1) equals control point 3.
C17_EvalEndpoints ==
    curvepc = "eval" =>
        /\ evalparam = <<0, 1>> => vector_eq(point, bezier[1])
        /\ evalparam = <<1, 1>> => vector_eq(point, bezier[4])

AllFinite(c) == \A i \in 1..4 : ~is_nan(c[i])

\* C17 (amended): for every curve whose four control points are finite,
\* eval(0) equals control point 0 and eval(1) equals control point 3.
C17_EvalEndpointsFinite ==
    (curvepc = "eval" /\ AllFinite(bezier)) =>
        /\ evalparam = <<0, 1>> => vector_eq(point, bezier[1])
        /\ evalparam = <<1, 1>> => vector_eq(point, bezier[4])

\* C17 witness: eval(1) of a curve with four different finite control points
\* has returned control point 3
C17_Witness ==
    /\ curvepc = "eval" /\ evalparam = <<1, 1>>
    /\ AllFinite(bezier)
    /\ Cardinality({bezier[i] : i \in 1..4}) = 4
    /\ point = bezier[4]

\* bound^2 + 800, in steps of 1/FixedPoint^2
BoundSquaredPlus800(c) ==
    curve_length_bound(c) * curve_length_bound(c) + 800 * FixedPoint * FixedPoint

\* C18 (as claimed): edges() yields exactly ceil(sqrt(bound^2 + 800) / 8)
\* segments: the least n with sqrt(bound^2 + 800) <= 8 n.
C18_SegmentCountCeil ==
    (curvepc = "edges" /\ AllFinite(bezier)) =>
        LET n == Len(segments)
        IN  /\ BoundSquaredPlus800(bezier) <= 64 * n * n * FixedPoint * FixedPoint
            /\ n > 0
            /\ 64 * (n - 1) * (n - 1) * FixedPoint * FixedPoint < BoundSquaredPlus800(bezier)

\* C18 (amended): for a curve with finite control points edges() yields
\* exactly floor(sqrt(bound^2 + 800) / 8) segments: the greatest n with
\* 8 n <= sqrt(bound^2 + 800).
C18_SegmentCountFloor ==
    (curvepc = "edges" /\ AllFinite(bezier)) =>
        LET n == Len(segments)
        IN  /\ 64 * n * n * FixedPoint * FixedPoint <= BoundSquaredPlus800(bezier)
            /\ BoundSquaredPlus800(bezier) < 64 * (n + 1) * (n + 1) * FixedPoint * FixedPoint

\* C18 witness: edges() of a curve with a control polygon of length 44 has
\* yielded 6 segments (sqrt(44^2 + 800) / 8 = 6.5...)
C18_Witness ==
    /\ curvepc = "edges"
    /\ bezier = <<Vector2F(0, 0), Vector2F(22, 0), Vector2F(0, 0), Vector2F(0, 0)>>
    /\ Len(segments) = 6


\* ================================================= claims, rasterize pass
\* shape s of the running collection has made some of its pixel writes and
\* has others still to make
PartiallyDrawn(s) == done[s] # {} /\ todo[s] # {}

\* C14 (as claimed): while a shape is partially drawn, between its first and
\* its last pixel write, the write lock of the image is held by that shape's
\* draw call, so no reader and no other shape's writer can acquire the image.
C14_ShapeHoldsWriteAccess ==
    \A s \in DOMAIN todo :
        PartiallyDrawn(s) => (writer # None /\ writer[1] = s)

\* the image after the items of one collection are drawn one after another
\* in the order of the collection
RECURSIVE draw_in_order(_, _, _)
draw_in_order(img, items, i) ==
    IF i > Len(items) THEN img
    ELSE draw_in_order(draw_pixels(img, {t[2] : t \in write_tasks(items[i])},
                                   items[i].brush.color),
                       items, i + 1)

PassOver == passpc = "idle" /\ passes > 0

\* C15 (as claimed): whatever the interleaving, the image a finished
\* rasterize pass leaves is the one obtained by drawing the shapes one after
\* another in the fixed order of the state: where two shapes of different
\* colours overlap, the later shape's colour is the final one.
C15_PassDeterministic ==
    PassOver =>
        image = draw_in_order(draw_in_order(EmptyImage, scene.polygons, 1),
                              scene.lines, 1)

RECURSIVE convolution(_, _, _, _)
convolution(a, b, k, i) ==
    IF i > k \/ i >= Len(a) THEN 0
    ELSE (IF k - i < Len(b) THEN a[i + 1] * b[k - i + 1] ELSE 0)
         + convolution(a, b, k, i + 1)

PolyOver == polypc \in {"done", "fault"}

\* C20 (as claimed): for non-empty a and b the product a * b is computed
\* without fault, has len(a) + len(b) - 1 coefficients, and its coefficient k
\* is the sum of a[i] * b[j] over all i + j = k.
C20_MulIsConvolution ==
    (PolyOver /\ pa # <<>> /\ pb # <<>>) =>
        /\ polypc = "done"
        /\ Len(coefs) = Len(pa) + Len(pb) - 1
        /\ \A k \in 0..(Len(coefs) - 1) : coefs[k + 1] = convolution(pa, pb, k, 0)

\* (2 - x + 2x^2) * (-1 + 2x) = -2 + 5x - 4x^2 + 4x^3 has been computed
C20_Witness ==
    /\ polypc = "done"
    /\ pa = <<2, -1, 2>> /\ pb = <<-1, 2>>
    /\ coefs = <<-2, 5, -4, 4>>


\* the items of anti-diagonal k of the grid, rows from i upward: element
\* k - i of every row i that has one, in increasing row index
RECURSIVE anti_diagonal(_, _, _)
anti_diagonal(grid, k, i) ==
    IF i > Len(grid) \/ i - 1 > k THEN <<>>
    ELSE (IF k - (i - 1) < Len(grid[i]) THEN <<grid[i][k - (i - 1) + 1]>> ELSE <<>>)
         \o anti_diagonal(grid, k, i + 1)

\* the number of anti-diagonals of the grid: the largest i + j + 1
RECURSIVE diagonals(_, _)
diagonals(grid, i) ==
    IF i > Len(grid) THEN 0
    ELSE LET here == IF grid[i] = <<>> THEN 0 ELSE (i - 1) + Len(grid[i])
             rest == diagonals(grid, i + 1)
         IN  IF here > rest THEN here ELSE rest

\* C21 (as claimed): diamondize over any finite sequence of finite rows ends
\* without fault and has yielded every element exactly once, grouped by
\* anti-diagonal: group k holds element j of row i for all i + j = k, in
\* increasing row index.
C21_DiamondAntiDiagonals ==
    (polyop = "diamondize" /\ PolyOver) =>
        /\ polypc = "done"
        /\ Len(groups) = diagonals(pa, 1)
        /\ \A k \in 0..(Len(groups) - 1) : groups[k + 1] = anti_diagonal(pa, k, 1)

\* a[i], 0 for a missing coefficient (indices from 1)
coef_or_zero(a, i) == IF i <= Len(a) THEN a[i] ELSE 0

\* C22 (as claimed): a + b and a - b have max(len(a), len(b)) coefficients
\* and coefficient i is a[i] + b[i], respectively a[i] - b[i], a missing
\* coefficient counting as 0.
C22_AddSubCoefficientWise ==
    (polyop \in {"add", "sub"} /\ polypc = "done") =>
        /\ Len(coefs) = (IF Len(pa) > Len(pb) THEN Len(pa) ELSE Len(pb))
        /\ \A i \in 1..Len(coefs) :
              coefs[i] = IF polyop = "add"
                         THEN coef_or_zero(pa, i) + coef_or_zero(pb, i)
                         ELSE coef_or_zero(pa, i) - coef_or_zero(pb, i)

\* <<2, -1>> - <<0, 2, 2>> = <<2, -3, -2>> has been computed
C22_Witness ==
    /\ polyop = "sub" /\ polypc = "done"
    /\ pa = <<2, -1>> /\ pb = <<0, 2, 2>>
    /\ coefs = <<2, -3, -2>>


\* ============================================ claims, curve fitter (second)
\* call f has measured its run of at least 3 points and gone on to split it
HasSplit(f) ==
    /\ frames[f].len >= 3
    /\ (2 * f \in DOMAIN frames \/ frames[f].pc = "fault")

\* C23 (as claimed): whenever fit_cubic splits a run of n >= 3 points, the
\* split index m the error measurement returned satisfies 0 < m < n - 1, also
\* when all measured errors are equal.
C23_SplitIndexInterior ==
    \A f \in DOMAIN frames :
        HasSplit(f) => (0 < frames[f].midpoint /\ frames[f].midpoint < frames[f].len - 1)


\* C24 (as claimed): a call runs reparameterization rounds only when its
\* first measured maximum error e satisfies error <= e < error^2, and then at
\* most 4; round k is computed from the parameters produced by round k - 1
\* (round 1 from the chord-length parameters) and from the curve of round
\* k - 1; a call still in the loop has not measured an error below `error`.
C24_ReparameterizeRounds ==
    \A f \in DOMAIN frames :
        LET fr == frames[f]
        IN  /\ Len(fr.rounds) <= MAX_ITERATIONS
            /\ fr.rounds # <<>> => (error <= fr.first /\ fr.first < error * error)
            /\ \A k \in 1..Len(fr.rounds) :
                  fr.rounds[k].u = k - 1 /\ fr.rounds[k].curve = k - 1
            /\ fr.pc = "reparam" => fr.max_error >= error


\* the handle length is a finite number
finite(h) == h.den # 0

\* two handle lengths are the same number
same_length(h, k) ==
    /\ finite(h) /\ finite(k) /\ h.eps = k.eps
    /\ h.num * k.den = k.num * h.den

\* the curve returned is the fallback curve [P0, P0 + lt*d/3, Pn + rt*d/3, Pn]
IsFallback(cv, g) ==
    /\ cv.p0 = fallback_curve(g).p0 /\ cv.p3 = fallback_curve(g).p3
    /\ same_length(cv.hl, third_of_chord(g))
    /\ same_length(cv.hr, third_of_chord(g))

\* C25 (as claimed): whenever the determinant of the C matrix is zero,
\* generate_bezier returns the fallback curve, whatever the X vector, and no
\* control point is non-finite.
C25_ZeroDeterminantFallback ==
    (genpc = "done" /\ genout.det.det_c0_c1 = 0) =>
        /\ IsFallback(genout.curve, gen)
        /\ finite(genout.curve.hl) /\ finite(genout.curve.hr)


\* ================================================== claims, graphical state
\* C26 (as claimed): after update_history_add has returned, and so after any
\* sequence of convert_buffered_lines, bezierify_buffered_lines and
\* polygonify_selected_items calls, the history holds at most HISTORY_LIMIT
\* entries.
C26_HistoryWithinLimit ==
    Alive => Len(gs.history) <= HISTORY_LIMIT

\* the location names an item of its collection, and the one it was
\* recorded for
refers(s, l) ==
    LET c == assoc_collection(s, l.ty)
    IN  l.i < Len(c) /\ c[l.i + 1].id = l.item

\* C27 (as claimed): after any sequence of the editing calls, every location
\* held in the history or in the selection names an existing item of the
\* collection of its type, and the item the location was recorded for.
C27_LocationsRefer ==
    Alive =>
        /\ \A k \in 1..Len(gs.history) : refers(gs, gs.history[k])
        /\ \A k \in 1..Len(gs.selected) : refers(gs, gs.selected[k])

\* C28 (as claimed): select_from_history never reads the history out of
\* range and never underflows an index; a first call (no previous history
\* selection) on a non-empty history selects the most recent entry.
C28_SelectFromHistorySafe ==
    [][select_from_history =>
          /\ gs'.fault = "none"
          /\ gs.last_history_selected = None =>
                contains(gs'.selected, gs.history[Len(gs.history)])]_vars


\* =================================================== claims, curves (second)
\* the point a segment starts at and the point it ends at
start_of(l) == <<l.from[1], l.from[2], l.q>>

end_of(l) == <<l.to[1], l.to[2], l.q>>

\* C29 (as claimed): the segments edges() yields form one connected
\* polyline: with n the segment count, segment i (0 <= i < n) runs from
\* eval(i/n) to eval((i+1)/n), the first segment starts at eval(0) and each
\* segment ends where the next one starts.
C29_EdgesConnected ==
    curvepc = "edges" =>
        LET n == Len(segments)
        IN  /\ n = num_segments(bezier)
            /\ \A i \in 1..n :
                  /\ vector_eq(start_of(segments[i]), eval(bezier, <<i - 1, n>>))
                  /\ vector_eq(end_of(segments[i]), eval(bezier, <<i, n>>))
            /\ n > 0 => vector_eq(start_of(segments[1]), eval(bezier, <<0, 1>>))
            /\ \A i \in 1..(n - 1) :
                  vector_eq(end_of(segments[i]), start_of(segments[i + 1]))

\* C29 witness: edges() has yielded three segments or more, and they do not
\* all lie on one point
C29_Witness ==
    /\ curvepc = "edges" /\ Len(segments) >= 3
    /\ \E i \in 1..Len(segments) :
          ~vector_eq(start_of(segments[i]), end_of(segments[i]))


\* ============================================================ claims, gui
\* C30 (as claimed): in BufferedGuiMode a mouse_release of a button other
\* than button 1 changes nothing (a drag in progress stays in progress, no
\* buffered line is added); a button-1 release during a drag ends the drag
\* and adds exactly one buffered line.
C30_OnlyButtonOneReleaseEndsDrag ==
    [][event'.kind = "release" =>
          IF event'.btn = 1 /\ drag_line # None
          THEN /\ drag_line' = None
               /\ gs' = [gs EXCEPT !.buffered_lines = Append(@, drag_line)]
          ELSE UNCHANGED <<drag_line, gs>>]_vars

====
